---- MODULE Spec2Model ----
(***************************************************************************)
(* FRET (Finger Ring Ensemble Topology): the RouteAndMaybeAct pipeline     *)
(* (handleMaybeAct, routeAct, iterativeLookup), the per-handler token      *)
(* buckets and the dedup cache of packages/fret/src/service, modelled as   *)
(* a state machine over a small ring of peers.                             *)
(*                                                                         *)
(* Scaling: ring coordinates are CoordBytes bytes wide instead of 32, and  *)
(* real-valued weights are fixed point (per mille).  Times are in ms.      *)
(***************************************************************************)
EXTENDS Integers, Sequences, FiniteSets, TLC

\* ------------------------------------------------------------------ bounds
CoordBytes == 2
MaxFrames == 3
MaxClientMsgs == 2
MaxBurst == 5
MaxRpc == 3
MaxAdvance == 1
MaxLookupTtl == 1

\* ------------------------------------------------------- program constants
DefaultK == 15
DefaultCapacity == 2048
MaxActivityLen == 131072
InflightRetryMs == 500
DedupTtlMs == 30000
DedupMaxSize == 1024
MaxDriftMs == 300000
BackoffBaseMs == 1000
BackoffMaxFactor == 32
MaxAnnounced == 4096
MaxWarm == 6
MaxMerge == 4

Min(a, b) == IF a < b THEN a ELSE b
Max(a, b) == IF a > b THEN a ELSE b
Abs(a) == IF a < 0 THEN 0 - a ELSE a

RECURSIVE Pow2(_)
Pow2(n) == IF n = 0 THEN 1 ELSE 2 * Pow2(n - 1)

TotalBits == 8 * CoordBytes
RING_SIZE == Pow2(TotalBits)

\* --------------------------------------------------------------- identities
Nodes == {"p1", "p2", "p3", "p4"}
\* ids that occur only as table entries
ExtraPeers == {"q1", "q2", "q3", "q4"}
Peers == Nodes \cup ExtraPeers
IdRank == [p1 |-> 1, p2 |-> 2, p3 |-> 3, p4 |-> 4, q1 |-> 5, q2 |-> 6, q3 |-> 7, q4 |-> 8]
\* string comparison idA < idB
IdLess(a, b) == IdRank[a] < IdRank[b]

\* hashPeerId / hashKey: a fixed digest of the id, here a table of ring
\* positions (top byte spreads the peers round the ring).
hashPeerId(id) ==
    CASE id = "p1" -> 16 * (RING_SIZE \div 256)
      [] id = "p2" -> 80 * (RING_SIZE \div 256)
      [] id = "p3" -> 144 * (RING_SIZE \div 256)
      [] id = "q1" -> 48 * (RING_SIZE \div 256) + 3
      [] id = "q2" -> 120 * (RING_SIZE \div 256)
      [] id = "q3" -> 176 * (RING_SIZE \div 256) + 1
      [] id = "q4" -> 240 * (RING_SIZE \div 256)
      [] OTHER     -> 208 * (RING_SIZE \div 256)

Keys == {"kA"}
hashKey(key) == 112 * (RING_SIZE \div 256) + 1

\* ---------------------------------------------------------- ring arithmetic
RECURSIVE XorNat(_, _)
XorNat(a, b) ==
    IF a = 0 THEN b
    ELSE IF b = 0 THEN a
    ELSE 2 * XorNat(a \div 2, b \div 2) + (((a % 2) + (b % 2)) % 2)

xorDistance(a, b) == XorNat(a, b)
\* lexicographic compare of equal-length big-endian byte strings
lexLess(a, b) == a < b

RECURSIVE BitLen(_)
BitLen(v) == IF v = 0 THEN 0 ELSE 1 + BitLen(v \div 2)
LeadingZeroBits(dist) == TotalBits - BitLen(dist)

\* index of the first non-zero byte; CoordBytes stands for +Infinity
leadingByteIndex(dist) ==
    IF dist = 0 THEN CoordBytes ELSE LeadingZeroBits(dist) \div 8

betterByDist(idA, distA, idB, distB) ==
    IF lexLess(distA, distB) THEN TRUE
    ELSE IF lexLess(distB, distA) THEN FALSE
    ELSE IdLess(idA, idB)

isNear(dist, nearRadius) == ~lexLess(nearRadius, dist)

\* per mille of 1 - lz/totalBits
normalizeDistance(dist) ==
    IF LeadingZeroBits(dist) >= TotalBits THEN 0
    ELSE Max(0, Min(1000, 1000 - (1000 * LeadingZeroBits(dist)) \div TotalBits))

\* ----------------------------------------------------------- Digitree store
\* A store is a function from the ids it holds to their entries.
\* an entry's coord is a Uint8Array: coord is its value as a ring position,
\* coordLen its length in bytes
NewEntryBytes(coord, len) ==
    [coord |-> coord, coordLen |-> len, state |-> "disconnected", relevance |-> 0,
     accessCount |-> 0, successCount |-> 0, failureCount |-> 0,
     avgLatencyMs |-> 0, metadata |-> ""]

\* the entry of a coordinate that a digest produced
NewEntry(coord) == NewEntryBytes(coord, CoordBytes)

EmptyStore == [x \in {} |-> NewEntry(0)]

StoreHas(st, id) == id \in DOMAIN st

\* upsert(id, coord) of a byte array of any length
StoreUpsertBytes(st, id, coord, len) ==
    IF StoreHas(st, id)
    THEN [st EXCEPT ![id].coord = coord, ![id].coordLen = len]
    ELSE [x \in DOMAIN st \cup {id} |-> IF x = id THEN NewEntryBytes(coord, len) ELSE st[x]]

StoreUpsert(st, id, coord) == StoreUpsertBytes(st, id, coord, CoordBytes)

StoreRemove(st, id) == [x \in DOMAIN st \ {id} |-> st[x]]

EntryLess(st, a, b) ==
    \/ st[a].coord < st[b].coord
    \/ st[a].coord = st[b].coord /\ IdLess(a, b)

RECURSIVE SortIds(_, _)
SortIds(st, S) ==
    IF S = {} THEN <<>>
    ELSE LET mn == CHOOSE a \in S : \A b \in S \ {a} : EntryLess(st, a, b)
         IN <<mn>> \o SortIds(st, S \ {mn})

Reverse(s) == [i \in 1..Len(s) |-> s[Len(s) + 1 - i]]
Take(s, k) == SubSeq(s, 1, Min(Max(k, 0), Len(s)))
Range(s) == {s[i] : i \in 1..Len(s)}

RECURSIVE Unique(_)
\* Array.from(new Set(s)): first occurrences, in order
Unique(s) ==
    IF s = <<>> THEN <<>>
    ELSE LET r == Unique(SubSeq(s, 1, Len(s) - 1))
         IN IF s[Len(s)] \in Range(r) THEN r ELSE Append(r, s[Len(s)])

FilterOut(s, ex) == SelectSeq(s, LAMBDA id : id \notin ex)

neighborsRight(st, coord, k) ==
    LET ord == SortIds(st, DOMAIN st)
        ge == SelectSeq(ord, LAMBDA id : st[id].coord >= coord)
        lt == SelectSeq(ord, LAMBDA id : st[id].coord < coord)
    IN Take(ge \o lt, k)

neighborsLeft(st, coord, k) ==
    LET ord == Reverse(SortIds(st, DOMAIN st))
        le == SelectSeq(ord, LAMBDA id : st[id].coord <= coord)
        gt == SelectSeq(ord, LAMBDA id : st[id].coord > coord)
    IN Take(le \o gt, k)

getNeighbors(st, coord, direction, wants) ==
    LET r == IF direction \in {"right", "both"} THEN neighborsRight(st, coord, wants) ELSE <<>>
        l == IF direction \in {"left", "both"} THEN neighborsLeft(st, coord, wants) ELSE <<>>
    IN Take(Unique(r \o l), wants)

\* --------------------------------------------------------- cohort assembly
\* the loop condition of assembleCohort
CohortMore(succIds, predIds, wants, w) ==
    Len(w.out) < wants /\ (w.si < Len(succIds) \/ w.pi < Len(predIds))

\* the loop body without its last branch
CohortStepNoFallback(succIds, predIds, ex, w) ==
    IF Len(w.out) % 2 = 0 /\ w.si < Len(succIds)
    THEN [out |-> IF succIds[w.si + 1] \notin ex THEN Append(w.out, succIds[w.si + 1])
                  ELSE w.out,
          si |-> w.si + 1, pi |-> w.pi, branch |-> 1]
    ELSE IF w.pi < Len(predIds)
    THEN [out |-> IF predIds[w.pi + 1] \notin ex THEN Append(w.out, predIds[w.pi + 1])
                  ELSE w.out,
          si |-> w.si, pi |-> w.pi + 1, branch |-> 2]
    ELSE [w EXCEPT !.branch = 0]

\* one pass through the body of the while loop of assembleCohort: out, si, pi
\* are its loop variables, branch the if-branch that ran
CohortStep(succIds, predIds, ex, w) ==
    IF Len(w.out) % 2 = 0 /\ w.si < Len(succIds)
    THEN [out |-> IF succIds[w.si + 1] \notin ex THEN Append(w.out, succIds[w.si + 1])
                  ELSE w.out,
          si |-> w.si + 1, pi |-> w.pi, branch |-> 1]
    ELSE IF w.pi < Len(predIds)
    THEN [out |-> IF predIds[w.pi + 1] \notin ex THEN Append(w.out, predIds[w.pi + 1])
                  ELSE w.out,
          si |-> w.si, pi |-> w.pi + 1, branch |-> 2]
    ELSE IF w.si < Len(succIds)
    THEN [out |-> IF succIds[w.si + 1] \notin ex THEN Append(w.out, succIds[w.si + 1])
                  ELSE w.out,
          si |-> w.si + 1, pi |-> w.pi, branch |-> 3]
    ELSE [w EXCEPT !.branch = 0]

RECURSIVE CohortWalk(_, _, _, _, _, _, _)
\* the while loop of assembleCohort run to its end
CohortWalk(succIds, predIds, wants, ex, out, si, pi) ==
    LET w == [out |-> out, si |-> si, pi |-> pi, branch |-> 0]
    IN IF ~CohortMore(succIds, predIds, wants, w) THEN out
       ELSE LET v == CohortStep(succIds, predIds, ex, w)
            IN CohortWalk(succIds, predIds, wants, ex, v.out, v.si, v.pi)

assembleCohort(st, coord, wants, ex) ==
    LET succIds == neighborsRight(st, coord, wants * 2)
        predIds == neighborsLeft(st, coord, wants * 2)
    IN Take(Unique(CohortWalk(succIds, predIds, wants, ex, <<>>, 0, 0)), wants)

IndexOf(s, x) ==
    IF x \in Range(s) THEN CHOOSE i \in 1..Len(s) : s[i] = x /\ \A j \in 1..(i - 1) : s[j] # x
    ELSE 0

\* zero-based index of selfId in the cohort; Infinity is a value above any index
Infinity == RING_SIZE
neighborDistance(st, selfId, coord, k) ==
    LET cohort == assembleCohort(st, coord, Max(1, k), {})
    IN IF selfId \in Range(cohort) THEN IndexOf(cohort, selfId) - 1 ELSE Infinity

\* ----------------------------------------------------------- size estimate
\* n is the estimated network size, confidence is per mille
estimateSizeAndConfidence(st, m) ==
    [n |-> Cardinality(DOMAIN st),
     confidence |-> Min(1000, (1000 * Cardinality(DOMAIN st)) \div (2 * Max(1, m)))]

computeNearRadius(sizeEstimate, k) ==
    IF sizeEstimate < 1 THEN 0
    ELSE LET span == k * (RING_SIZE \div Max(1, sizeEstimate))
             val == span * 2
         IN IF val >= RING_SIZE THEN RING_SIZE - 1 ELSE val

\* ------------------------------------------------------- next-hop selector
\* weights in per mille; confidence in per mille
weightsForContext(near, confidence) ==
    LET wD0 == IF near THEN 700 ELSE 400
        wConn0 == IF near THEN 100 ELSE 400
        cAdj == ((confidence - 500) * 2) \div 10
    IN [wD |-> Max(100, wD0 + cAdj), wConn |-> Max(50, wConn0 - cAdj),
        wQ |-> 100, wB |-> 100]

\* cost scaled by 10^6; normDist, linkQ, backoff in per mille
cost(normDist, connected, linkQ, backoff, w) ==
    w.wD * normDist - w.wConn * (IF connected THEN 1000 ELSE 0)
        - w.wQ * linkQ + w.wB * backoff

Scored(st, targetCoord, id, connSet, linkQ, backoff, nearRadius, confidence) ==
    LET dist == xorDistance(st[id].coord, targetCoord)
        near == isNear(dist, nearRadius)
    IN [id |-> id, dist |-> dist, near |-> near, connected |-> id \in connSet,
        costVal |-> cost(normalizeDistance(dist), id \in connSet, linkQ[id], backoff[id],
                         weightsForContext(near, confidence))]

\* comparator of the near-mode sort: negative when a sorts before b
NearCmp(a, b) ==
    IF betterByDist(a.id, a.dist, b.id, b.dist) THEN 0 - 1
    ELSE IF betterByDist(b.id, b.dist, a.id, a.dist) THEN 1
    ELSE IF a.connected # b.connected THEN (IF a.connected THEN 0 - 1 ELSE 1)
    ELSE a.costVal - b.costVal

\* comparator of the far-mode sort
FarCmp(a, b) ==
    IF a.costVal # b.costVal THEN a.costVal - b.costVal
    ELSE IF betterByDist(a.id, a.dist, b.id, b.dist) THEN 0 - 1 ELSE 1

\* linkQ and backoff are functions id -> per mille; "" stands for undefined
NoPeer == ""
chooseNextHopCost(st, targetCoord, candidates, connSet, linkQ, backoff, nearRadius, confidence) ==
    LET scored == {Scored(st, targetCoord, id, connSet, linkQ, backoff, nearRadius, confidence) :
                     id \in {c \in Range(candidates) : StoreHas(st, c)}}
        nearC == {s \in scored : s.near}
        farC == {s \in scored : ~s.near}
    IN IF scored = {} THEN NoPeer
       ELSE IF nearC # {}
            THEN (CHOOSE a \in nearC : \A b \in nearC \ {a} : NearCmp(a, b) < 0).id
       ELSE (CHOOSE a \in farC : \A b \in farC \ {a} : FarCmp(a, b) < 0).id

RECURSIVE LegacyConnectedWalk(_, _, _, _)
\* the second loop of chooseNextHopLegacy; best is the running bestConnected
LegacyConnectedWalk(scoredSeq, bestLead, tol, best) ==
    IF scoredSeq = <<>> THEN best
    ELSE LET s == Head(scoredSeq)
             rest == Tail(scoredSeq)
             eligible == s.connected /\ leadingByteIndex(s.dist) <= bestLead + tol
             next ==
                 IF ~eligible THEN best
                 ELSE IF best.id = NoPeer THEN s
                 ELSE IF betterByDist(s.id, s.dist, best.id, best.dist) THEN s
                 ELSE IF s.dist = best.dist
                         /\ (s.score > best.score \/ (s.score = best.score /\ IdLess(s.id, best.id)))
                      THEN s
                 ELSE best
         IN LegacyConnectedWalk(rest, bestLead, tol, next)

chooseNextHopLegacy(st, targetCoord, candidates, connSet, linkQ, tol) ==
    LET known == SelectSeq(candidates, LAMBDA c : StoreHas(st, c))
        scoredSeq == [i \in 1..Len(known) |->
                        [id |-> known[i],
                         dist |-> xorDistance(st[known[i]].coord, targetCoord),
                         connected |-> known[i] \in connSet,
                         score |-> (IF known[i] \in connSet THEN 1000 ELSE 0)
                                     + linkQ[known[i]] \div 4]]
        S == Range(scoredSeq)
    IN IF S = {} THEN NoPeer
       ELSE LET bestByDist == CHOOSE a \in S :
                                \A b \in S : b.id = a.id \/ betterByDist(a.id, a.dist, b.id, b.dist)
                bestConnected == LegacyConnectedWalk(scoredSeq, leadingByteIndex(bestByDist.dist), tol,
                                     [id |-> NoPeer, dist |-> 0, connected |-> FALSE, score |-> 0])
            IN IF bestConnected.id # NoPeer THEN bestConnected.id ELSE bestByDist.id

NeutralLinkQ == [id \in Peers |-> 500]

pickAnchors(st, connSet, candidates) ==
    LET unique == Unique(candidates)
        first == chooseNextHopLegacy(st, 0, unique, connSet, NeutralLinkQ, 1)
        rest == SelectSeq(unique, LAMBDA id : id # first)
        second == chooseNextHopLegacy(st, 0, rest, connSet, NeutralLinkQ, 1)
    IN IF unique = <<>> THEN <<>>
       ELSE SelectSeq(<<first, second>>, LAMBDA x : x # NoPeer)

linkQuality(st, id) ==
    IF ~StoreHas(st, id) THEN 0
    ELSE IF st[id].successCount + st[id].failureCount = 0 THEN 500
    ELSE (1000 * st[id].successCount) \div (st[id].successCount + st[id].failureCount)

\* ------------------------------------------------------------ peer backoff
\* a backoff map is a function from the ids it holds to [until, factor]
\* a backoff whose factor doubles without a ceiling
recordBackoffUncapped(bm, id, t) ==
    LET factor == IF id \in DOMAIN bm THEN bm[id].factor * 2 ELSE 1
    IN [x \in DOMAIN bm \cup {id} |->
          IF x = id THEN [until |-> t + BackoffBaseMs * factor, factor |-> factor] ELSE bm[x]]

recordBackoff(bm, id, t) ==
    LET factor == IF id \in DOMAIN bm THEN Min(bm[id].factor * 2, BackoffMaxFactor) ELSE 1
    IN [x \in DOMAIN bm \cup {id} |->
          IF x = id THEN [until |-> t + BackoffBaseMs * factor, factor |-> factor] ELSE bm[x]]

clearBackoff(bm, id) == [x \in DOMAIN bm \ {id} |-> bm[x]]

\* per mille of factor / 32
getBackoffPenalty(bm, id, t) ==
    IF id \notin DOMAIN bm THEN 0
    ELSE IF bm[id].until < t THEN 0
    ELSE Min(1000, (1000 * bm[id].factor) \div BackoffMaxFactor)

\* getBackoffPenalty deletes the expired entries it meets
BackoffAfterPenalty(bm, ids, t) ==
    [x \in {y \in DOMAIN bm : ~(y \in ids /\ bm[y].until < t)} |-> bm[x]]

\* -------------------------------------------------------------- dedup cache
\* a cache is the Map's entries in insertion order: <<[key, result, expires]>>
NoResult == [kind |-> "None"]

DedupIndex(cache, key) ==
    IF \E i \in 1..Len(cache) : cache[i].key = key
    THEN CHOOSE i \in 1..Len(cache) : cache[i].key = key
    ELSE 0

DedupGet(cache, key, t) ==
    LET i == DedupIndex(cache, key)
    IN IF i = 0 THEN NoResult
       ELSE IF cache[i].expires < t THEN NoResult
       ELSE cache[i].result

\* the cache after get(key): an expired entry is deleted
DedupAfterGet(cache, key, t) ==
    LET i == DedupIndex(cache, key)
    IN IF i # 0 /\ cache[i].expires < t
       THEN SelectSeq(cache, LAMBDA e : e.key # key)
       ELSE cache

evictExpired(cache, t) == SelectSeq(cache, LAMBDA e : ~(e.expires < t))
\* an eviction that deletes the entry inserted last
evictNewest(cache) == IF cache = <<>> THEN cache ELSE SubSeq(cache, 1, Len(cache) - 1)
evictOldest(cache) == IF cache = <<>> THEN cache ELSE Tail(cache)

DedupSet(cache, key, result, t, ttlMs, maxSize) ==
    LET c1 == IF Len(cache) >= maxSize THEN evictExpired(cache, t) ELSE cache
        c2 == IF Len(c1) >= maxSize THEN evictOldest(c1) ELSE c1
        e == [key |-> key, result |-> result, expires |-> t + ttlMs]
        i == DedupIndex(c2, key)
    IN IF i = 0 THEN Append(c2, e) ELSE [c2 EXCEPT ![i] = e]

\* ------------------------------------------------------------- token bucket
\* tokens are counted in thousandths; a rate of r tokens/s is r thousandths/ms
BucketParams(kind, profile) ==
    CASE kind = "maybeAct"  -> IF profile = "core" THEN [cap |-> 32, rate |-> 16] ELSE [cap |-> 8, rate |-> 4]
      [] kind = "ping"      -> IF profile = "core" THEN [cap |-> 30, rate |-> 15] ELSE [cap |-> 10, rate |-> 5]
      [] kind = "neighbors" -> IF profile = "core" THEN [cap |-> 20, rate |-> 10] ELSE [cap |-> 8, rate |-> 4]
      [] kind = "leave"     -> IF profile = "core" THEN [cap |-> 20, rate |-> 10] ELSE [cap |-> 8, rate |-> 4]
      [] OTHER              -> IF profile = "core" THEN [cap |-> 50, rate |-> 25] ELSE [cap |-> 10, rate |-> 3]

BucketRefill(b, prm, t) ==
    [tokens |-> Min(prm.cap * 1000, b.tokens + Max(0, t - b.last) * prm.rate), last |-> t]

\* tryTake: refill to the current time, then take one token if there is one
tryTakeOk(b, prm, t) == BucketRefill(b, prm, t).tokens >= 1000
BucketAfterTake(b, prm, t) ==
    LET r == BucketRefill(b, prm, t)
    IN IF r.tokens >= 1000 THEN [r EXCEPT !.tokens = @ - 1000] ELSE r

\* milliseconds until the next whole token
retryAfterMs(b, prm) ==
    IF b.tokens >= 1000 THEN 0
    ELSE ((1000 - b.tokens) + prm.rate - 1) \div prm.rate

\* ------------------------------------------------------------ rpc envelope
\* a window that is open towards the future
validateTimestampPastOnly(ts, maxDriftMs, t) == t - ts <= maxDriftMs

\* validateTimestamp(ts, maxDriftMs) called when Date.now() reads t
validateTimestampWithin(ts, maxDriftMs, t) == Abs(t - ts) <= maxDriftMs
\* the call with the default window
validateTimestamp(ts, t) == validateTimestampWithin(ts, MaxDriftMs, t)

\* ----------------------------------------------------------------- messages
NoActivity == "undefined"
BigActivity == "BIG"
MaxSizeActivity == "MAX"
\* msg.activity.length
ActivityLength(a) ==
    CASE a = NoActivity -> 0
      [] a = BigActivity -> MaxActivityLen + 1
      [] a = MaxSizeActivity -> MaxActivityLen
      [] OTHER -> 3
HasActivity(msg) == msg.activity # NoActivity

Msg(key, ttl, activity, breadcrumbs, cid, ts) ==
    [key |-> key, want_k |-> 2, ttl |-> ttl, min_sigs |-> 1, activity |-> activity,
     breadcrumbs |-> breadcrumbs, correlation_id |-> cid, timestamp |-> ts]

BusyResponse(ms) == [kind |-> "Busy", retry_after_ms |-> ms]
CertResponse(c) == [kind |-> "Cert", commitCertificate |-> c]
isBusy(res) == res.kind = "Busy"

nearAnchorOnly(st, connSet, c, msg) ==
    LET coord == hashKey(msg.key)
        right == getNeighbors(st, coord, "right", c.m)
        left == getNeighbors(st, coord, "left", c.m)
    IN [kind |-> "NearAnchor",
        anchors |-> pickAnchors(st, connSet, Take(right, 3) \o Take(left, 3)),
        cohort_hint |-> Unique(Take(right, 2) \o Take(left, 2)),
        estimated_cluster_size |-> c.k,
        confidence |-> 500]

buildNearAnchor(st, connSet, c, coord, n, confidence) ==
    LET right == getNeighbors(st, coord, "right", c.m)
        left == getNeighbors(st, coord, "left", c.m)
    IN [kind |-> "NearAnchor",
        anchors |-> pickAnchors(st, connSet, Take(right, 4) \o Take(left, 4)),
        cohort_hint |-> Unique(Take(right, 4) \o Take(left, 4)),
        estimated_cluster_size |-> Max(c.k, n),
        confidence |-> confidence]

\* applySuccess: scoreSuccess on the entry (upserted when missing)
applySuccess(st, id, coord, latencyMs) ==
    LET s1 == IF StoreHas(st, id) THEN st ELSE StoreUpsert(st, id, coord)
    IN [s1 EXCEPT ![id].successCount = @ + 1, ![id].relevance = @ + 2,
                  ![id].avgLatencyMs = IF @ = 0 THEN latencyMs
                                       ELSE (7 * @ + 3 * latencyMs) \div 10]

applyFailure(st, id, coord) ==
    LET s1 == IF StoreHas(st, id) THEN st ELSE StoreUpsert(st, id, coord)
    IN [s1 EXCEPT ![id].failureCount = @ + 1, ![id].relevance = @ - 1]

applyTouch(st, id, coord) ==
    LET s1 == IF StoreHas(st, id) THEN st ELSE StoreUpsert(st, id, coord)
    IN [s1 EXCEPT ![id].accessCount = @ + 1, ![id].relevance = @ + 1]

InflightLimit(profile) == IF profile = "core" THEN 16 ELSE 4

\* =================================================================== state
VARIABLES
    now,             \* Date.now(), ms
    advances,        \* how often the clock has been advanced
    frameCap,        \* how many maybeAct messages a run may create
    clientCap,       \* how many of them may come from clients
    cfg,             \* FretConfig: k, m, capacity, profile
    store,           \* per node: the Digitree store
    conn,            \* per node: peers with a live connection (node.getConnections)
    cachedSelfCoord, \* per node: whether selfCoord() has been cached
    activityHandler, \* per node: whether setActivityHandler was called
    dedupCache,      \* per node: the DedupCache entries
    backoffMap,      \* per node: the backoff map
    inflightAct,     \* per node: the in-flight counter
    buckets,         \* per node: the token buckets by handler kind
    diag,            \* per node: diagnostics counters
    frames,          \* maybeAct invocations: in transit, running, or answered
    actCalls,        \* per node and correlation id: calls of the activity callback
    fwdLog,          \* every forward: who forwarded what as what to whom
    cachedBy,        \* per node and correlation id: the invocation that last cached a result
    announcedIds,    \* per node: ids announced by peer:discovery, with their expiry
    last,            \* the last run of the synchronous head of handleMaybeAct
    rpcLast,         \* the last ping / neighbors / announce / leave exchange
    lk,              \* the iterativeLookup generator of node LookupNode
    svc,             \* the stabilization loop of node LifeNode: flag, ticks, timers
    sim              \* the simulation harness: peers, their stores, metrics

vars == <<now, advances, frameCap, clientCap, cfg, store, conn, cachedSelfCoord, activityHandler,
          dedupCache, backoffMap, inflightAct, buckets, diag, frames, actCalls, fwdLog,
          cachedBy, announcedIds, last, rpcLast, lk, svc, sim>>

CorrIds == {"", "c1"}
Certs == {"certA", "certB"}
BucketKinds == {"maybeAct", "ping", "neighbors", "leave", "discovery"}

\* --------------------------------------------------- handleMaybeAct, head
\* variants of the head that drop or reorder one of its checks
EntryVerdictNoLoop(selfId, msg, cache, bucket, prm, inflight, limit, t) ==
    IF msg.correlation_id # "" /\ DedupGet(cache, msg.correlation_id, t) # NoResult THEN "cached"
    ELSE IF ~validateTimestamp(msg.timestamp, t) THEN "timestamp"
    ELSE IF msg.ttl <= 0 THEN "ttl"
    ELSE IF HasActivity(msg) /\ ActivityLength(msg.activity) > MaxActivityLen THEN "payload"
    ELSE IF ~tryTakeOk(bucket, prm, t) THEN "rate"
    ELSE IF inflight >= limit THEN "inflight"
    ELSE "route"

EntryVerdictTtlFirst(selfId, msg, cache, bucket, prm, inflight, limit, t) ==
    IF selfId \in Range(msg.breadcrumbs) THEN "loop"
    ELSE IF msg.correlation_id # "" /\ DedupGet(cache, msg.correlation_id, t) # NoResult THEN "cached"
    ELSE IF msg.ttl <= 0 THEN "ttl"
    ELSE IF ~validateTimestamp(msg.timestamp, t) THEN "timestamp"
    ELSE IF HasActivity(msg) /\ ActivityLength(msg.activity) > MaxActivityLen THEN "payload"
    ELSE IF ~tryTakeOk(bucket, prm, t) THEN "rate"
    ELSE IF inflight >= limit THEN "inflight"
    ELSE "route"

EntryVerdictNoBucket(selfId, msg, cache, bucket, prm, inflight, limit, t) ==
    IF selfId \in Range(msg.breadcrumbs) THEN "loop"
    ELSE IF msg.correlation_id # "" /\ DedupGet(cache, msg.correlation_id, t) # NoResult THEN "cached"
    ELSE IF ~validateTimestamp(msg.timestamp, t) THEN "timestamp"
    ELSE IF msg.ttl <= 0 THEN "ttl"
    ELSE IF HasActivity(msg) /\ ActivityLength(msg.activity) > MaxActivityLen THEN "payload"
    ELSE IF inflight >= limit THEN "inflight"
    ELSE "route"

EntryVerdictNoDedup(selfId, msg, cache, bucket, prm, inflight, limit, t) ==
    IF selfId \in Range(msg.breadcrumbs) THEN "loop"
    ELSE IF ~validateTimestamp(msg.timestamp, t) THEN "timestamp"
    ELSE IF msg.ttl <= 0 THEN "ttl"
    ELSE IF HasActivity(msg) /\ ActivityLength(msg.activity) > MaxActivityLen THEN "payload"
    ELSE IF ~tryTakeOk(bucket, prm, t) THEN "rate"
    ELSE IF inflight >= limit THEN "inflight"
    ELSE "route"

\* The synchronous head of handleMaybeAct (up to the call of routeAct): which
\* of its exits a message takes.
EntryVerdict(selfId, msg, cache, bucket, prm, inflight, limit, t) ==
    IF selfId \in Range(msg.breadcrumbs) THEN "loop"
    ELSE IF msg.correlation_id # "" /\ DedupGet(cache, msg.correlation_id, t) # NoResult THEN "cached"
    ELSE IF ~validateTimestamp(msg.timestamp, t) THEN "timestamp"
    ELSE IF msg.ttl <= 0 THEN "ttl"
    ELSE IF HasActivity(msg) /\ ActivityLength(msg.activity) > MaxActivityLen THEN "payload"
    ELSE IF ~tryTakeOk(bucket, prm, t) THEN "rate"
    ELSE IF inflight >= limit THEN "inflight"
    ELSE "route"

\* diag.rejected after the head took exit v
RejectedAfter(rej, v) ==
    CASE v = "timestamp" -> [rej EXCEPT !.timestampBounds = @ + 1]
      [] v = "ttl"       -> [rej EXCEPT !.ttlExpired = @ + 1]
      [] v = "payload"   -> [rej EXCEPT !.payloadTooLarge = @ + 1]
      [] v = "rate"      -> [rej EXCEPT !.rateLimited = @ + 1]
      [] v = "inflight"  -> [rej EXCEPT !.rateLimited = @ + 1]
      [] OTHER           -> rej

\* the response of the head, NoResult when the message goes on to routeAct
EntryResponse(n, msg, v, bucketAfter, prm) ==
    CASE v = "cached"   -> DedupGet(dedupCache[n], msg.correlation_id, now)
      [] v = "rate"     -> BusyResponse(retryAfterMs(bucketAfter, prm))
      [] v = "inflight" -> BusyResponse(InflightRetryMs)
      [] v = "route"    -> NoResult
      [] OTHER          -> nearAnchorOnly(store[n], conn[n], cfg, msg)

NewFrame(n, msg, parent) ==
    [node |-> n, msg |-> msg, pc |-> "arrive", parent |-> parent, resp |-> NoResult,
     next |-> NoPeer, est |-> [n |-> 0, confidence |-> 0], act |-> "none"]

\* handleMaybeAct on frame idx of fr (node n, message msg), up to routeAct
HandleMaybeActHead(fr, idx) ==
    LET n == fr[idx].node
        msg == fr[idx].msg
        prm == BucketParams("maybeAct", cfg.profile)
        v == EntryVerdict(n, msg, dedupCache[n], buckets[n].maybeAct, prm,
                          inflightAct[n], InflightLimit(cfg.profile), now)
        probed == v # "loop" /\ msg.correlation_id # ""
        taken == v \in {"rate", "inflight", "route"}
        bucketAfter == IF taken THEN BucketAfterTake(buckets[n].maybeAct, prm, now)
                       ELSE buckets[n].maybeAct
        resp == EntryResponse(n, msg, v, bucketAfter, prm)
    IN /\ dedupCache' = [dedupCache EXCEPT ![n] =
                            IF probed THEN DedupAfterGet(@, msg.correlation_id, now) ELSE @]
       /\ buckets' = [buckets EXCEPT ![n].maybeAct = bucketAfter]
       /\ diag' = [diag EXCEPT ![n].rejected = RejectedAfter(@, v)]
       /\ inflightAct' = [inflightAct EXCEPT ![n] = IF v = "route" THEN @ + 1 ELSE @]
       /\ frames' = [fr EXCEPT ![idx].pc = IF v = "route" THEN "route" ELSE "done",
                               ![idx].resp = resp]
       /\ last' = [node |-> n, msg |-> msg, at |-> now, frame |-> idx,
                   selfInCrumbs |-> n \in Range(msg.breadcrumbs),
                   cacheHit |-> msg.correlation_id # ""
                                  /\ DedupGet(dedupCache[n], msg.correlation_id, now) # NoResult,
                   tokens |-> BucketRefill(buckets[n].maybeAct, prm, now).tokens,
                   inflightBefore |-> inflightAct[n],
                   doneBefore |-> {j \in 1..Len(fr) : fr[j].pc = "done"},
                   cachedFrom |-> cachedBy[n][msg.correlation_id],
                   actBefore |-> actCalls[n],
                   rejBefore |-> diag[n].rejected,
                   rejAfter |-> RejectedAfter(diag[n].rejected, v),
                   routed |-> v = "route",
                   resp |-> resp]

\* a client (or a peer outside the model) sends msg to node n
ClientMsgs == Cardinality({i \in 1..Len(frames) : frames[i].parent = 0})
Inject(n, msg) ==
    /\ Len(frames) < frameCap
    /\ ClientMsgs < clientCap
    /\ HandleMaybeActHead(Append(frames, NewFrame(n, msg, 0)), Len(frames) + 1)
    /\ UNCHANGED <<now, advances, frameCap, clientCap, cfg, store, conn, cachedSelfCoord, activityHandler,
                   backoffMap, actCalls, fwdLog, cachedBy, rpcLast, lk, svc, sim, announcedIds>>

\* a forwarded message reaches its target
Deliver(i) ==
    /\ frames[i].pc = "arrive"
    /\ HandleMaybeActHead(frames, i)
    /\ UNCHANGED <<now, advances, frameCap, clientCap, cfg, store, conn, cachedSelfCoord, activityHandler,
                   backoffMap, actCalls, fwdLog, cachedBy, rpcLast, lk, svc, sim, announcedIds>>

\* ----------------------------------------------------------------- routeAct
LinkQOf(st) == [id \in Peers |-> linkQuality(st, id)]
PenaltyOf(bm, t) == [id \in Peers |-> getBackoffPenalty(bm, id, t)]

\* variants of the forward step
RouteExcludeSelfOnly(selfId, msg) == {selfId}
ForwardMsgSameTtl(selfId, msg) == [msg EXCEPT !.breadcrumbs = Append(msg.breadcrumbs, selfId)]

\* exclusion set of the forward step
RouteExclude(selfId, msg) == Range(msg.breadcrumbs) \cup {selfId}

RouteCandidates(st, c, selfId, msg) ==
    FilterOut(assembleCohort(st, hashKey(msg.key), Max(4, c.m), {}), RouteExclude(selfId, msg))

\* the message routeAct sends on
ForwardMsg(selfId, msg) ==
    [msg EXCEPT !.ttl = msg.ttl - 1, !.breadcrumbs = Append(msg.breadcrumbs, selfId)]

\* a variant that does not look for an activity in the message
routeActAnyMessage(st, connSet, c, bm, selfId, msg, hasHandler, t) ==
    LET coord == hashKey(msg.key)
        est == estimateSizeAndConfidence(st, c.m)
        distIdx == neighborDistance(st, selfId, coord, Max(2, msg.want_k))
        inCluster == distIdx <= 1
        candidates == RouteCandidates(st, c, selfId, msg)
        next == chooseNextHopCost(st, coord, candidates, connSet, LinkQOf(st), PenaltyOf(bm, t),
                                  computeNearRadius(est.n, c.k), est.confidence)
        anchor == buildNearAnchor(st, connSet, c, coord, est.n, est.confidence)
    IN IF inCluster
       THEN IF hasHandler
            THEN [kind |-> "activity", est |-> est, next |-> NoPeer, resp |-> NoResult,
                  scored |-> {}]
            ELSE [kind |-> "anchor", est |-> est, next |-> NoPeer, resp |-> anchor, scored |-> {}]
       ELSE IF msg.ttl > 0 /\ next # NoPeer
            THEN [kind |-> "forward", est |-> est, next |-> next, resp |-> NoResult,
                  scored |-> Range(candidates)]
       ELSE [kind |-> "anchor", est |-> est, next |-> NoPeer, resp |-> anchor,
             scored |-> IF msg.ttl > 0 THEN Range(candidates) ELSE {}]

\* routeAct up to its first call-out: invoke the callback, answer, or forward
routeAct(st, connSet, c, bm, selfId, msg, hasHandler, t) ==
    LET coord == hashKey(msg.key)
        est == estimateSizeAndConfidence(st, c.m)
        distIdx == neighborDistance(st, selfId, coord, Max(2, msg.want_k))
        inCluster == distIdx <= 1
        candidates == RouteCandidates(st, c, selfId, msg)
        next == chooseNextHopCost(st, coord, candidates, connSet, LinkQOf(st), PenaltyOf(bm, t),
                                  computeNearRadius(est.n, c.k), est.confidence)
        anchor == buildNearAnchor(st, connSet, c, coord, est.n, est.confidence)
    IN IF inCluster
       THEN IF HasActivity(msg) /\ hasHandler
            THEN [kind |-> "activity", est |-> est, next |-> NoPeer, resp |-> NoResult,
                  scored |-> {}]
            ELSE [kind |-> "anchor", est |-> est, next |-> NoPeer, resp |-> anchor, scored |-> {}]
       ELSE IF msg.ttl > 0 /\ next # NoPeer
            THEN [kind |-> "forward", est |-> est, next |-> next, resp |-> NoResult,
                  scored |-> Range(candidates)]
       ELSE [kind |-> "anchor", est |-> est, next |-> NoPeer, resp |-> anchor,
             scored |-> IF msg.ttl > 0 THEN Range(candidates) ELSE {}]

\* a variant that keeps the slot when routeAct threw
SettleLeak(fr, i, result, threw) ==
    LET n == fr[i].node
        cid == fr[i].msg.correlation_id
    IN /\ dedupCache' = [dedupCache EXCEPT ![n] =
                            IF ~threw /\ cid # ""
                            THEN DedupSet(@, cid, result, now, DedupTtlMs, DedupMaxSize)
                            ELSE @]
       /\ cachedBy' = [cachedBy EXCEPT ![n][cid] = IF ~threw /\ cid # "" THEN i ELSE @]
       /\ inflightAct' = [inflightAct EXCEPT ![n] = IF threw THEN @ ELSE @ - 1]
       /\ frames' = [fr EXCEPT ![i].pc = "done", ![i].resp = result]

\* handleMaybeAct after routeAct has settled on frame i of fr: cache the
\* result (unless routeAct threw), release the slot, answer
Settle(fr, i, result, threw) ==
    LET n == fr[i].node
        cid == fr[i].msg.correlation_id
    IN /\ dedupCache' = [dedupCache EXCEPT ![n] =
                            IF ~threw /\ cid # ""
                            THEN DedupSet(@, cid, result, now, DedupTtlMs, DedupMaxSize)
                            ELSE @]
       /\ cachedBy' = [cachedBy EXCEPT ![n][cid] = IF ~threw /\ cid # "" THEN i ELSE @]
       /\ inflightAct' = [inflightAct EXCEPT ![n] = @ - 1]
       /\ frames' = [fr EXCEPT ![i].pc = "done", ![i].resp = result]

Route(i) ==
    /\ frames[i].pc = "route"
    /\ \E d \in {routeAct(store[frames[i].node], conn[frames[i].node], cfg,
                          backoffMap[frames[i].node], frames[i].node, frames[i].msg,
                          activityHandler[frames[i].node], now)} :
       LET n == frames[i].node
           msg == frames[i].msg
           swept == BackoffAfterPenalty(backoffMap[n], d.scored, now)
           fwd == ForwardMsg(n, msg)
       IN /\ cachedSelfCoord' = [cachedSelfCoord EXCEPT ![n] = TRUE]
          /\ CASE d.kind = "activity" ->
                    /\ actCalls' = [actCalls EXCEPT ![n][msg.correlation_id] = @ + 1]
                    /\ frames' = [frames EXCEPT ![i].pc = "activity", ![i].est = d.est,
                                                ![i].act = "called"]
                    /\ backoffMap' = [backoffMap EXCEPT ![n] = swept]
                    /\ UNCHANGED <<dedupCache, inflightAct, diag, fwdLog, cachedBy>>
               [] d.kind = "anchor" ->
                    /\ Settle([frames EXCEPT ![i].est = d.est], i, d.resp, FALSE)
                    /\ backoffMap' = [backoffMap EXCEPT ![n] = swept]
                    /\ UNCHANGED <<actCalls, diag, fwdLog>>
               [] d.kind = "forward" /\ Len(frames) < frameCap ->
                    /\ frames' = Append([frames EXCEPT ![i].pc = "forward", ![i].next = d.next,
                                                       ![i].est = d.est],
                                        NewFrame(d.next, fwd, i))
                    /\ diag' = [diag EXCEPT ![n].maybeActForwarded = @ + 1]
                    /\ fwdLog' = fwdLog \cup {[by |-> n, to |-> d.next, recv |-> msg, sent |-> fwd]}
                    /\ backoffMap' = [backoffMap EXCEPT ![n] = swept]
                    /\ UNCHANGED <<actCalls, dedupCache, inflightAct, cachedBy>>
               [] OTHER ->
                    \* no room for another message: the send fails at once
                    /\ Settle([frames EXCEPT ![i].est = d.est], i,
                              buildNearAnchor(store[n], conn[n], cfg, hashKey(msg.key),
                                              d.est.n, d.est.confidence), FALSE)
                    /\ diag' = [diag EXCEPT ![n].maybeActForwarded = @ + 1]
                    /\ fwdLog' = fwdLog \cup {[by |-> n, to |-> d.next, recv |-> msg, sent |-> fwd]}
                    /\ backoffMap' = [backoffMap EXCEPT ![n] = recordBackoff(swept, d.next, now)]
                    /\ UNCHANGED <<actCalls>>
    /\ UNCHANGED <<now, advances, frameCap, clientCap, cfg, store, conn, activityHandler, buckets,
                   last, rpcLast, lk, svc, sim, announcedIds>>

\* the activity callback resolves with a commit certificate
ActivityReturn(i, cert) ==
    /\ frames[i].pc = "activity"
    /\ Settle([frames EXCEPT ![i].act = "returned"], i, CertResponse(cert), FALSE)
    /\ UNCHANGED <<now, advances, frameCap, clientCap, cfg, store, conn, cachedSelfCoord, activityHandler,
                   backoffMap, buckets, diag, actCalls, fwdLog, last, rpcLast, lk, svc, sim, announcedIds>>

\* the activity callback rejects: routeAct throws into handleMaybeAct's catch,
\* which awaits nearAnchorOnly with the slot still taken
ActivityThrow(i) ==
    /\ frames[i].pc = "activity"
    /\ frames' = [frames EXCEPT ![i].pc = "fallback", ![i].act = "threw"]
    /\ UNCHANGED <<now, advances, frameCap, clientCap, cfg, store, conn, cachedSelfCoord,
                   activityHandler, dedupCache, backoffMap, inflightAct, buckets, diag,
                   actCalls, fwdLog, cachedBy, last, rpcLast, lk, svc, sim, announcedIds>>

\* the catch's nearAnchorOnly resolves; finally releases the slot
Fallback(i) ==
    /\ frames[i].pc = "fallback"
    /\ Settle(frames, i,
              nearAnchorOnly(store[frames[i].node], conn[frames[i].node], cfg, frames[i].msg), TRUE)
    /\ UNCHANGED <<now, advances, frameCap, clientCap, cfg, store, conn, cachedSelfCoord,
                   activityHandler, backoffMap, buckets, diag, actCalls, fwdLog, last, rpcLast, lk, svc, sim, announcedIds>>

\* the reply to a forwarded message arrives
FwdReply(i) ==
    /\ frames[i].pc = "forward"
    /\ \E c \in 1..Len(frames) :
         /\ frames[c].parent = i
         /\ frames[c].pc = "done"
         /\ LET n == frames[i].node
                nx == frames[i].next
                r == frames[c].resp
                nextCoord == IF StoreHas(store[n], nx) THEN store[n][nx].coord ELSE hashPeerId(nx)
            IN IF isBusy(r)
               THEN /\ backoffMap' = [backoffMap EXCEPT ![n] = recordBackoff(@, nx, now)]
                    /\ Settle(frames, i,
                              buildNearAnchor(store[n], conn[n], cfg, hashKey(frames[i].msg.key),
                                              frames[i].est.n, frames[i].est.confidence), FALSE)
                    /\ UNCHANGED store
               ELSE /\ store' = [store EXCEPT ![n] = applySuccess(@, nx, nextCoord, 0)]
                    /\ backoffMap' = [backoffMap EXCEPT ![n] = clearBackoff(@, nx)]
                    /\ Settle(frames, i, r, FALSE)
    /\ UNCHANGED <<now, advances, frameCap, clientCap, cfg, conn, cachedSelfCoord, activityHandler,
                   buckets, diag, actCalls, fwdLog, last, rpcLast, lk, svc, sim, announcedIds>>

\* sendMaybeAct throws (dial failure, reset stream, undecodable reply)
FwdError(i) ==
    /\ frames[i].pc = "forward"
    /\ LET n == frames[i].node
       IN /\ backoffMap' = [backoffMap EXCEPT ![n] = recordBackoff(@, frames[i].next, now)]
          /\ Settle(frames, i,
                    buildNearAnchor(store[n], conn[n], cfg, hashKey(frames[i].msg.key),
                                    frames[i].est.n, frames[i].est.confidence), FALSE)
    /\ UNCHANGED <<now, advances, frameCap, clientCap, cfg, store, conn, cachedSelfCoord, activityHandler,
                   buckets, diag, actCalls, fwdLog, last, rpcLast, lk, svc, sim, announcedIds>>

AdvanceSteps == {DedupTtlMs + 1}
Advance(d) ==
    /\ advances < MaxAdvance
    /\ now' = now + d
    /\ advances' = advances + 1
    /\ UNCHANGED <<frameCap, clientCap, cfg, store, conn, cachedSelfCoord, activityHandler, dedupCache,
                   backoffMap, inflightAct, buckets, diag, frames, actCalls, fwdLog, cachedBy,
                   last, rpcLast, lk, svc, sim, announcedIds>>

\* ------------------------------------------------------------ initial state
InitStoreIds ==
    [p1 |-> {"p1", "p2", "p4"}, p2 |-> {"p1", "p2", "p3"},
     p3 |-> {"p2", "p3", "p4"}, p4 |-> {"p1", "p3", "p4"}]
InitConn ==
    [p1 |-> {"p2"}, p2 |-> {"p1", "p3"}, p3 |-> {"p2", "p4"}, p4 |-> {"p3"}]
HandlerNodes == {"p2", "p3"}

SeededStore(ids) == [x \in ids |-> NewEntry(hashPeerId(x))]
ConfigK(k, profile) ==
    [k |-> k, m |-> (k + 1) \div 2, capacity |-> DefaultCapacity, profile |-> profile,
     bootstraps |-> <<>>]
Config(profile) == ConfigK(DefaultK, profile)
FullBuckets(profile) ==
    [kind \in BucketKinds |-> [tokens |-> 1000 * BucketParams(kind, profile).cap, last |-> 0]]
ZeroDiag ==
    [maybeActForwarded |-> 0, snapshotsFetched |-> 0,
     rejected |-> [payloadTooLarge |-> 0, timestampBounds |-> 0, ttlExpired |-> 0, rateLimited |-> 0]]
NoLast == [node |-> NoPeer]
NoRpc == [kind |-> "none", seq |-> 0, left |-> {}]
NoAnchor == [kind |-> "NearAnchor", anchors |-> <<>>, cohort_hint |-> <<>>,
             estimated_cluster_size |-> 0, confidence |-> 0]
\* a service that was never started
NoSvc ==
    [stabilizing |-> FALSE, ticks |-> <<>>, timers |-> 0, starts |-> 0, invoked |-> 0, cont |-> 0,
     pings |-> <<>>, fetch |-> [replied |-> <<>>, failed |-> {}], caught |-> 0]
NoRoute == [ran |-> FALSE]
ZeroMetrics ==
    [totalJoins |-> 0, totalLeaves |-> 0, totalConnections |-> 0, stabilizationCycles |-> 0,
     neighborsFound |-> 0, coverageTimeSeries |-> <<>>, routingAttempts |-> 0,
     routingSuccesses |-> 0, routingHops |-> <<>>]
\* no simulation running
NoSim == [alive |-> {}, stores |-> <<>>, batch |-> <<>>, route |-> NoRoute,
          metrics |-> ZeroMetrics]

NoLookup ==
    [pc |-> "idle", node |-> NoPeer, ttl |-> 0, maxAttempts |-> 0, activity |-> NoActivity,
     attempt |-> 0, hop |-> 0, bestAnchors |-> <<>>, events |-> <<>>, target |-> NoPeer,
     includePayload |-> FALSE, actTarget |-> NoPeer, anchor |-> NoAnchor, sent |-> <<>>,
     lastBusy |-> NoPeer,
     seen |-> {}]

InitCommon ==
    /\ now = 0
    /\ advances = 0
    /\ store = [n \in Nodes |-> SeededStore(InitStoreIds[n])]
    /\ conn = InitConn
    /\ cachedSelfCoord = [n \in Nodes |-> FALSE]
    /\ activityHandler = [n \in Nodes |-> n \in HandlerNodes]
    /\ dedupCache = [n \in Nodes |-> <<>>]
    /\ backoffMap = [n \in Nodes |-> [x \in {} |-> [until |-> 0, factor |-> 1]]]
    /\ inflightAct = [n \in Nodes |-> 0]
    /\ diag = [n \in Nodes |-> ZeroDiag]
    /\ frames = <<>>
    /\ actCalls = [n \in Nodes |-> [c \in CorrIds |-> 0]]
    /\ fwdLog = {}
    /\ cachedBy = [n \in Nodes |-> [c \in CorrIds |-> 0]]
    /\ last = NoLast
    /\ rpcLast = NoRpc
    /\ announcedIds = [n \in Nodes |-> [x \in {} |-> 0]]
    /\ lk = NoLookup
    /\ svc = NoSvc

Init ==
    /\ InitCommon
    /\ sim = NoSim
    /\ frameCap = MaxFrames
    /\ clientCap = MaxClientMsgs
    /\ cfg = Config("edge")
    /\ buckets = [n \in Nodes |-> FullBuckets("edge")]

\* the nodes clients talk to: p2 is in the key's cluster, p4 is two hops away
InjectNodes == {"p2", "p4"}

\* the messages a client sends to node n
InjectMsgs(n) ==
    IF n = "p2"
    THEN {Msg("kA", 2, "act", <<>>, "c1", now),
          Msg("kA", 2, NoActivity, <<>>, "c1", now),
          Msg("kA", 2, "act", <<>>, "", now),
          Msg("kA", 2, "act", <<n>>, "c1", now)}
    ELSE {Msg("kA", 3, "act", <<>>, "c1", now),
          Msg("kA", 2, "act", <<>>, "c1", now),
          Msg("kA", 2, "act", <<"p1">>, "c1", now),
          Msg("kA", 2, "act", <<n>>, "c1", now)}

Next ==
    \/ \E n \in InjectNodes : \E msg \in InjectMsgs(n) : Inject(n, msg)
    \/ \E i \in 1..Len(frames) : Deliver(i)
    \/ \E i \in 1..Len(frames) : Route(i)
    \/ \E i \in 1..Len(frames) : \E cert \in Certs : ActivityReturn(i, cert)
    \/ \E i \in 1..Len(frames) : ActivityThrow(i)
    \/ \E i \in 1..Len(frames) : Fallback(i)
    \/ \E i \in 1..Len(frames) : FwdReply(i)
    \/ \E i \in 1..Len(frames) : FwdError(i)
    \/ \E d \in AdvanceSteps : Advance(d)

Spec == Init /\ [][Next]_vars

\* ------------------------------------------- bounds checks and rate limiting
\* One node under client traffic that includes malformed messages; its
\* maybeAct bucket starts full, with its last token, or drained.
BoundsNode == "p2"

InitBounds ==
    /\ InitCommon
    /\ sim = NoSim
    /\ frameCap = MaxFrames
    /\ clientCap = MaxClientMsgs
    /\ cfg = Config("edge")
    /\ \E t \in {0, 1000, 1000 * BucketParams("maybeAct", "edge").cap} :
         buckets = [n \in Nodes |-> [FullBuckets("edge") EXCEPT !.maybeAct.tokens = t]]

BoundsMsgs(n) ==
    {Msg("kA", 2, "act", <<>>, "c1", now),
     Msg("kA", 2, NoActivity, <<>>, "", now),
     Msg("kA", 1, MaxSizeActivity, <<>>, "", now - MaxDriftMs),
     Msg("kA", 2, "act", <<>>, "c1", now - MaxDriftMs - 1),
     Msg("kA", 0, BigActivity, <<>>, "c1", now + MaxDriftMs + 1),
     Msg("kA", 0, "act", <<>>, "c1", now),
     Msg("kA", 0 - 1, BigActivity, <<>>, "c1", now),
     Msg("kA", 2, BigActivity, <<>>, "c1", now),
     Msg("kA", 0, BigActivity, <<n>>, "c1", now - MaxDriftMs - 1)}

RefillSteps == {100, 250}

NextBounds ==
    \/ \E msg \in BoundsMsgs(BoundsNode) : Inject(BoundsNode, msg)
    \/ \E i \in 1..Len(frames) : Route(i)
    \/ \E i \in 1..Len(frames) : \E cert \in Certs : ActivityReturn(i, cert)
    \/ \E i \in 1..Len(frames) : ActivityThrow(i)
    \/ \E i \in 1..Len(frames) : Fallback(i)
    \/ \E d \in RefillSteps : Advance(d)

SpecBounds == InitBounds /\ [][NextBounds]_vars

\* --------------------------------------------------------- in-flight bursts
\* A burst of client requests at an edge node of the key's cluster.
BurstNode == "p2"

InitInflight ==
    /\ InitCommon
    /\ sim = NoSim
    /\ frameCap = MaxBurst
    /\ clientCap = MaxBurst
    /\ cfg = Config("edge")
    /\ buckets = [n \in Nodes |-> FullBuckets("edge")]

BurstMsgs == {Msg("kA", 2, "act", <<>>, "", now)}

NextInflight ==
    \/ \E msg \in BurstMsgs : Inject(BurstNode, msg)
    \/ \E i \in 1..Len(frames) : Route(i)
    \/ \E i \in 1..Len(frames) : ActivityReturn(i, "certA")
    \/ \E i \in 1..Len(frames) : ActivityThrow(i)
    \/ \E i \in 1..Len(frames) : Fallback(i)

SpecInflight == InitInflight /\ [][NextInflight]_vars

\* ------------------------------------- ping, neighbors, announce and leave
\* enforceCapacity: evict by rising relevance, sparing the ids around self
protectedIdsAround(st, selfCoord, m) ==
    Range(neighborsRight(st, selfCoord, m)) \cup Range(neighborsLeft(st, selfCoord, m))

RECURSIVE EvictWalkAny(_, _, _, _)
\* an eviction loop that spares nobody
EvictWalkAny(st, order, cap, protected) ==
    IF order = <<>> \/ Cardinality(DOMAIN st) <= cap THEN st
    ELSE EvictWalkAny(StoreRemove(st, Head(order)), Tail(order), cap, protected)

RECURSIVE EvictWalk(_, _, _, _)
EvictWalk(st, order, cap, protected) ==
    IF order = <<>> \/ Cardinality(DOMAIN st) <= cap THEN st
    ELSE IF Head(order) \in protected THEN EvictWalk(st, Tail(order), cap, protected)
    ELSE EvictWalk(StoreRemove(st, Head(order)), Tail(order), cap, protected)

\* store.list() left unsorted
ByListOrder(st, S) == SortIds(st, S)

RECURSIVE ByRelevance(_, _)
\* entries.sort by relevance: a stable sort of store.list()
ByRelevance(st, S) ==
    IF S = {} THEN <<>>
    ELSE LET least == {a \in S : \A b \in S : st[a].relevance <= st[b].relevance}
             mn == CHOOSE a \in least : \A b \in least \ {a} : EntryLess(st, a, b)
         IN <<mn>> \o ByRelevance(st, S \ {mn})

enforceCapacity(st, c, selfId, selfCached) ==
    IF Cardinality(DOMAIN st) <= Max(1, c.capacity) \/ ~selfCached THEN st
    ELSE EvictWalk(st, ByRelevance(st, DOMAIN st), Max(1, c.capacity),
                   protectedIdsAround(st, hashPeerId(selfId), Max(2, c.m)))

DiscoveryTtl(profile) == IF profile = "core" THEN 10 * 60000 ELSE 30 * 60000

RECURSIVE EmitWalk(_, _, _, _, _, _)
\* the loop of emitDiscovered over the unique ids; e counts the events emitted
EmitWalk(ids, b, ann, e, profile, t) ==
    IF ids = <<>> THEN [bucket |-> b, announced |-> ann, emitted |-> e]
    ELSE IF Head(ids) \in DOMAIN ann /\ ann[Head(ids)] > t
         THEN EmitWalk(Tail(ids), b, ann, e, profile, t)
    ELSE IF ~tryTakeOk(b, BucketParams("discovery", profile), t)
         THEN [bucket |-> BucketAfterTake(b, BucketParams("discovery", profile), t),
               announced |-> ann, emitted |-> e]
    ELSE EmitWalk(Tail(ids), BucketAfterTake(b, BucketParams("discovery", profile), t),
                  [x \in DOMAIN ann \cup {Head(ids)} |->
                      IF x = Head(ids) THEN t + DiscoveryTtl(profile) ELSE ann[x]],
                  e + 1, profile, t)

emitDiscovered(b, ann, ids, profile, t) ==
    IF ids = <<>> THEN [bucket |-> b, announced |-> ann]
    ELSE LET r == EmitWalk(Unique(ids), b, ann, 0, profile, t)
         IN [bucket |-> r.bucket,
             announced |-> IF r.emitted > 0 /\ Cardinality(DOMAIN r.announced) > MaxAnnounced
                           THEN [x \in {y \in DOMAIN r.announced : r.announced[y] > t} |->
                                    r.announced[x]]
                           ELSE r.announced]

\* base64url of a coordinate: its bytes as 6-bit digits, the last one padded
NDigits == (TotalBits + 5) \div 6
PadBits == 6 * NDigits - TotalBits
\* an encoding that leaves the last digit unpadded
coordToBase64urlUnpadded(v) ==
    [i \in 1..NDigits |-> (v \div Pow2(6 * (NDigits - i))) % 64]

coordToBase64url(v) ==
    [i \in 1..NDigits |-> ((v * Pow2(PadBits)) \div Pow2(6 * (NDigits - i))) % 64]

RECURSIVE DigitsValue(_)
DigitsValue(d) == IF d = <<>> THEN 0 ELSE 64 * DigitsValue(SubSeq(d, 1, Len(d) - 1)) + d[Len(d)]
base64urlToCoord(d) == DigitsValue(d) \div Pow2(PadBits)
\* the number of bytes a base64url string of Len(d) digits decodes to
DecodedLen(d) == (6 * Len(d)) \div 8

\* u8FromString(s, 'base64url'): the bytes that the digits carry, however many
u8FromString(d) ==
    [len |-> DecodedLen(d), value |-> DigitsValue(d) \div Pow2(6 * Len(d) - 8 * DecodedLen(d))]
\* the ring position a byte array of at most CoordBytes bytes is read as
\* (a byte it does not have reads as 0)
BytesAsCoord(value, len) == value * Pow2(8 * (CoordBytes - len))
\* coordToBase64url of the coordinate of an entry, len bytes long
coordToBase64urlOfLen(v, len) ==
    IF len = CoordBytes THEN coordToBase64url(v)
    ELSE LET n == (8 * len + 5) \div 6
         IN [i \in 1..n |-> (((v \div Pow2(8 * (CoordBytes - len))) * Pow2(6 * n - 8 * len))
                               \div Pow2(6 * (n - i))) % 64]

RECURSIVE MergeIds(_, _, _)
\* upsert + touch of each id in turn; found collects the ids that were new
MergeIds(st, ids, found) ==
    IF ids = <<>> THEN [store |-> st, discovered |-> found]
    ELSE MergeIds(applyTouch(StoreUpsert(st, Head(ids), hashPeerId(Head(ids))),
                             Head(ids), hashPeerId(Head(ids))),
                  Tail(ids),
                  IF StoreHas(st, Head(ids)) THEN found ELSE Append(found, Head(ids)))

RECURSIVE MergeSample(_, _, _)
\* the sample loop of mergeAnnounceSnapshot and mergeNeighborSnapshots: each
\* coordinate is decoded and upserted as it comes
MergeSample(st, sample, found) ==
    IF sample = <<>> THEN [store |-> st, discovered |-> found]
    ELSE LET s == Head(sample)
             b == u8FromString(s.coord)
             c == BytesAsCoord(b.value, b.len)
         IN MergeSample(applyTouch(StoreUpsertBytes(st, s.id, c, b.len), s.id, c),
                        Tail(sample),
                        IF StoreHas(st, s.id) THEN found ELSE Append(found, s.id))

Snapshot(from, ts, successors) ==
    [kind |-> "Snapshot", from |-> from, timestamp |-> ts, successors |-> successors,
     predecessors |-> <<>>, sample |-> <<>>]
SampleOf(id, coord, relevance) == [id |-> id, coord |-> coord, relevance |-> relevance]
LeaveNotice(from, ts, replacements) ==
    [from |-> from, timestamp |-> ts, replacements |-> replacements]
OkReply == [kind |-> "Ok", ok |-> TRUE]

\* snapshot(): what the neighbors handler answers
snapshot(st, selfId, c, t) ==
    LET lim == IF c.profile = "core" THEN 12 ELSE 6
        capSample == IF c.profile = "core" THEN 8 ELSE 6
        est == estimateSizeAndConfidence(st, c.m)
        successors == Take(getNeighbors(st, hashPeerId(selfId), "right", c.m), lim)
        predecessors == Take(getNeighbors(st, hashPeerId(selfId), "left", c.m), lim)
        sampleIds == Take(Unique(Take(successors, 4) \o Take(predecessors, 4)), capSample)
    IN [kind |-> "Snapshot", from |-> selfId, timestamp |-> t,
        successors |-> successors,
        predecessors |-> predecessors,
        sample |-> [i \in 1..Len(sampleIds) |->
                      IF StoreHas(st, sampleIds[i])
                      THEN SampleOf(sampleIds[i],
                                    coordToBase64urlOfLen(st[sampleIds[i]].coord,
                                                          st[sampleIds[i]].coordLen),
                                    st[sampleIds[i]].relevance)
                      ELSE SampleOf(sampleIds[i], <<>>, 0)],
        size_estimate |-> est.n, confidence |-> est.confidence]

\* what every rpc records of itself: the state it found and its reply
\* (preEvict is the store as the handler's last enforceCapacity found it, left
\* the peers whose leave notice was handled and that have not come back since)
RpcRecord(kind, n, rejected, reply, preEvict) ==
    [kind |-> kind, node |-> n, seq |-> rpcLast.seq + 1, bucketRejected |-> rejected,
     preEvict |-> preEvict, cachedBefore |-> cachedSelfCoord[n], left |-> rpcLast.left,
     handed |-> <<>>, sent |-> <<>>,
     allBucketsEmpty |-> \A k \in BucketKinds :
                            ~tryTakeOk(buckets[n][k], BucketParams(k, cfg.profile), now),
     reply |-> reply, storeBefore |-> store[n], rejBefore |-> diag[n].rejected,
     announcedBefore |-> announcedIds[n]]

RpcIdle == <<advances, frameCap, clientCap, cfg, conn, activityHandler, dedupCache, backoffMap,
             inflightAct, frames, actCalls, fwdLog, cachedBy, last, lk, svc, sim>>

\* handlePingRequest behind registerPing
HandlePing(n) ==
    LET prm == BucketParams("ping", cfg.profile)
        ok == tryTakeOk(buckets[n].ping, prm, now)
        after == BucketAfterTake(buckets[n].ping, prm, now)
    IN /\ rpcLast.seq < MaxRpc
       /\ buckets' = [buckets EXCEPT ![n].ping = after]
       /\ diag' = [diag EXCEPT ![n].rejected.rateLimited = IF ok THEN @ ELSE @ + 1]
       /\ rpcLast' = RpcRecord("ping", n, ~ok,
                        IF ok THEN [kind |-> "Ping", ok |-> TRUE, ts |-> now]
                        ELSE BusyResponse(retryAfterMs(after, prm)), store[n])
       /\ UNCHANGED <<now, store, cachedSelfCoord, announcedIds>>
       /\ UNCHANGED RpcIdle

\* handleNeighborsRequest behind registerNeighbors
HandleNeighbors(n) ==
    LET prm == BucketParams("neighbors", cfg.profile)
        ok == tryTakeOk(buckets[n].neighbors, prm, now)
        after == BucketAfterTake(buckets[n].neighbors, prm, now)
    IN /\ rpcLast.seq < MaxRpc
       /\ buckets' = [buckets EXCEPT ![n].neighbors = after]
       /\ diag' = [diag EXCEPT ![n].rejected.rateLimited = IF ok THEN @ ELSE @ + 1]
       /\ rpcLast' = RpcRecord("neighbors", n, ~ok,
                        IF ok THEN snapshot(store[n], n, cfg, now)
                        ELSE BusyResponse(retryAfterMs(after, prm)), store[n])
       /\ UNCHANGED <<now, store, cachedSelfCoord, announcedIds>>
       /\ UNCHANGED RpcIdle

\* mergeAnnounceSnapshot behind the announce handler of registerNeighbors, which
\* answers { ok: true } whatever the merge does
HandleAnnounce(n, snap) ==
    LET fresh == validateTimestamp(snap.timestamp, now)
        ids == MergeIds(store[n], <<snap.from>> \o snap.successors \o snap.predecessors, <<>>)
        merged == MergeSample(ids.store, snap.sample, ids.discovered)
        emit == emitDiscovered(buckets[n].discovery, announcedIds[n], merged.discovered,
                               cfg.profile, now)
    IN /\ rpcLast.seq < MaxRpc
       /\ IF fresh
          THEN /\ store' = [store EXCEPT ![n] = enforceCapacity(merged.store, cfg, n, TRUE)]
               /\ cachedSelfCoord' = [cachedSelfCoord EXCEPT ![n] = TRUE]
               /\ buckets' = [buckets EXCEPT ![n].discovery = emit.bucket]
               /\ announcedIds' = [announcedIds EXCEPT ![n] = emit.announced]
               /\ UNCHANGED diag
          ELSE /\ diag' = [diag EXCEPT ![n].rejected.timestampBounds = @ + 1]
               /\ UNCHANGED <<store, cachedSelfCoord, buckets, announcedIds>>
       /\ rpcLast' = [RpcRecord("announce", n, FALSE, OkReply,
                                IF fresh THEN merged.store ELSE store[n])
                         EXCEPT !.left = IF fresh THEN @ \ {snap.from} ELSE @]
       /\ UNCHANGED now
       /\ UNCHANGED RpcIdle

\* peerIdFromString accepts the id
ValidPeerId(id) == id \in Peers

MAX_REPLACEMENTS == 12
\* a sanitizer that drops the unparseable ids of the whole list
sanitizeUntruncated(ids) == SelectSeq(ids, ValidPeerId)

\* sanitizeReplacements: the first 12, less the unparseable ones (an absent
\* or emptied list is undefined, which the handler reads as empty)
sanitizeReplacements(ids) == SelectSeq(Take(ids, MAX_REPLACEMENTS), ValidPeerId)

expandCohort(st, current, coord, step, ex) ==
    Unique(current \o assembleCohort(st, coord, Len(current) + step, ex))

\* the replacement ids handleLeave warms: suggested first, then locally found
leaveWarm(st, selfId, from, coord, suggested, c) ==
    LET base == Unique(neighborsRight(st, coord, c.m) \o neighborsLeft(st, coord, c.m))
        expanded == expandCohort(st, base, coord, Max(2, (c.m + 1) \div 2), {})
        localNew == FilterOut(expanded, Range(base))
        seen == {from, selfId} \cup Range(base)
        newIds == Unique(FilterOut(suggested \o localNew, seen))
    IN Take(newIds, Min(Len(newIds), MaxWarm))

RECURSIVE MergeFetched(_, _, _, _, _)
\* mergeNeighborSnapshots: a peer without a connection yields an empty
\* snapshot, a connected one the successors it replies
MergeFetched(st, ids, connSet, replied, found) ==
    IF ids = <<>> THEN [store |-> st, discovered |-> found]
    ELSE LET m == IF Head(ids) \in connSet THEN MergeIds(st, replied, found)
                  ELSE [store |-> st, discovered |-> found]
         IN MergeFetched(m.store, Tail(ids), connSet, replied, m.discovered)

\* handleLeave behind registerLeave, which answers { ok: true } once onLeave
\* has returned
HandleLeave(n, notice, replied) ==
    LET prm == BucketParams("leave", cfg.profile)
        ok == tryTakeOk(buckets[n].leave, prm, now)
        after == BucketAfterTake(buckets[n].leave, prm, now)
        fresh == validateTimestamp(notice.timestamp, now)
        coord == IF StoreHas(store[n], notice.from) THEN store[n][notice.from].coord
                 ELSE hashPeerId(notice.from)
        st1 == StoreRemove(store[n], notice.from)
        warm == leaveWarm(st1, n, notice.from, coord, sanitizeReplacements(notice.replacements), cfg)
        merged == MergeFetched(st1, Take(warm, MaxMerge), conn[n], replied, <<>>)
        emitB == emitDiscovered(buckets[n].discovery, announcedIds[n], merged.discovered,
                                cfg.profile, now)
        touched == replied # <<>> /\ \E w \in Range(Take(warm, MaxMerge)) : w \in conn[n]
    IN /\ rpcLast.seq < MaxRpc
       /\ IF ~ok
          THEN /\ buckets' = [buckets EXCEPT ![n].leave = after]
               /\ diag' = [diag EXCEPT ![n].rejected.rateLimited = @ + 1]
               /\ UNCHANGED <<store, cachedSelfCoord, announcedIds>>
          ELSE IF ~fresh
          THEN /\ buckets' = [buckets EXCEPT ![n].leave = after]
               /\ diag' = [diag EXCEPT ![n].rejected.timestampBounds = @ + 1]
               /\ UNCHANGED <<store, cachedSelfCoord, announcedIds>>
          ELSE /\ buckets' = [buckets EXCEPT ![n].leave = after, ![n].discovery = emitB.bucket]
               /\ diag' = [diag EXCEPT ![n].snapshotsFetched = @ + Len(Take(warm, MaxMerge))]
               /\ store' = [store EXCEPT ![n] =
                               enforceCapacity(merged.store, cfg, n,
                                               cachedSelfCoord[n] \/ touched)]
               /\ cachedSelfCoord' = [cachedSelfCoord EXCEPT ![n] = @ \/ touched]
               /\ announcedIds' = [announcedIds EXCEPT ![n] = emitB.announced]
       /\ rpcLast' = [RpcRecord("leave", n, ~ok, OkReply,
                                IF ok /\ fresh THEN merged.store ELSE store[n])
                         EXCEPT !.left = IF ok /\ fresh THEN @ \cup {notice.from} ELSE @,
                                !.sent = notice.replacements,
                                !.handed = sanitizeReplacements(notice.replacements)]
       /\ UNCHANGED now
       /\ UNCHANGED RpcIdle

\* ---- the rpc handlers of one node under traffic, its buckets full or drained
RpcNode == "p2"

InitRpc ==
    /\ InitCommon
    /\ sim = NoSim
    /\ frameCap = MaxFrames
    /\ clientCap = MaxClientMsgs
    /\ cfg = Config("edge")
    /\ \E full \in BOOLEAN :
         buckets = [n \in Nodes |->
                      IF full THEN FullBuckets("edge")
                      ELSE [kind \in BucketKinds |-> [tokens |-> 0, last |-> 0]]]

Announces ==
    {Snapshot(f, ts, succ) : f \in {"p3", "p4"}, ts \in {now, now - MaxDriftMs - 1},
                             succ \in {<<>>, <<"p4">>}}
\* replacement lists a sender may put in a notice: none, one id, an
\* unparseable id, and an oversized list with unparseable ids in it
LongReplacements ==
    [i \in 1..MAX_REPLACEMENTS + 4 |-> IF i % 5 = 0 THEN "??" ELSE IF i % 2 = 0 THEN "p4" ELSE "p3"]
Leaves ==
    {LeaveNotice(f, ts, repl) : f \in {"p1", "p4"}, ts \in {now, now - MaxDriftMs - 1},
                                repl \in {<<>>, <<"p4">>, <<"??", "p4">>, LongReplacements}}

NextRpc ==
    \/ HandlePing(RpcNode)
    \/ HandleNeighbors(RpcNode)
    \/ \E snap \in Announces : HandleAnnounce(RpcNode, snap)
    \/ \E notice \in Leaves : \E replied \in {<<>>, <<"p4">>} : HandleLeave(RpcNode, notice, replied)
    \/ \E d \in RefillSteps : Advance(d)

SpecRpc == InitRpc /\ [][NextRpc]_vars

\* ---------------------------------------------------------- iterativeLookup
\* shouldIncludePayload with beta 2 and threshold 0.5; confidence per mille.
\* Number(...) keeps the leading bits of its argument: the quotient is taken of
\* the two numbers cut to 21 bits.
shouldIncludePayload(distToKey, sizeEstimate, confidence, k) ==
    IF sizeEstimate < 1 \/ confidence <= 0 THEN FALSE
    ELSE LET nearZone == (k * (RING_SIZE \div Max(1, sizeEstimate))) * 2
             scale == Max(1, nearZone \div Pow2(20))
         IN IF nearZone = 0 THEN FALSE
            ELSE IF distToKey > nearZone THEN FALSE
            ELSE ((nearZone - distToKey) \div scale) * confidence >= 500 * (nearZone \div scale)

Event(type, hop, peerId) == [type |-> type, hop |-> hop, peerId |-> peerId]
Terminal == {"complete", "exhausted"}

\* yield exhausted; return
lookupExhaust(l) ==
    [l EXCEPT !.pc = "end", !.events = Append(@, Event("exhausted", l.hop, NoPeer))]

\* yield complete; return
lookupComplete(l, hop, peer) ==
    [l EXCEPT !.pc = "end", !.events = Append(@, Event("complete", hop, peer))]

\* the candidates of one attempt
lookupCandidates(st, c, l) ==
    IF Len(l.bestAnchors) > 0 THEN FilterOut(l.bestAnchors, {l.node})
    ELSE FilterOut(assembleCohort(st, hashKey("kA"), Max(4, c.m), {}), {l.node})

RECURSIVE UpsertHints(_, _)
\* the cohort_hint loop: upsert every hint
UpsertHints(st, hints) ==
    IF hints = <<>> THEN st
    ELSE IF StoreHas(st, Head(hints))
         THEN UpsertHints(StoreUpsert(st, Head(hints), st[Head(hints)].coord), Tail(hints))
    ELSE IF ValidPeerId(Head(hints))
         THEN UpsertHints(StoreUpsert(st, Head(hints), hashPeerId(Head(hints))), Tail(hints))
    ELSE UpsertHints(st, Tail(hints))

LookupIdle == <<svc, sim, now, advances, frameCap, clientCap, cfg, conn, activityHandler, dedupCache,
                inflightAct, buckets, diag, frames, actCalls, fwdLog, cachedBy, announcedIds,
                last, rpcLast>>

\* iterativeLookup(key, options) is called at node n
LookupStart(n, ttl, maxAttempts, activity) ==
    /\ lk.pc = "idle"
    /\ lk' = [NoLookup EXCEPT !.pc = "loop", !.node = n, !.ttl = ttl,
                              !.maxAttempts = maxAttempts, !.activity = activity]
    /\ cachedSelfCoord' = [cachedSelfCoord EXCEPT ![n] = TRUE]
    /\ UNCHANGED <<store, backoffMap>>
    /\ UNCHANGED LookupIdle

\* the head of one loop iteration, up to the send
LookupStep ==
    /\ lk.pc = "loop"
    /\ LET n == lk.node
           st == store[n]
           est == estimateSizeAndConfidence(st, cfg.m)
           coord == hashKey("kA")
           includePayload ==
               IF lk.activity # NoActivity
               THEN shouldIncludePayload(xorDistance(hashPeerId(n), coord), est.n,
                                         est.confidence, 2)
               ELSE FALSE
           candidates == lookupCandidates(st, cfg, lk)
           target == chooseNextHopCost(st, coord, candidates, conn[n], LinkQOf(st),
                                       PenaltyOf(backoffMap[n], now),
                                       computeNearRadius(est.n, cfg.k), est.confidence)
           msg == [Msg("kA", lk.ttl - lk.hop,
                       IF includePayload THEN lk.activity ELSE NoActivity,
                       <<n>>, "lookup", now) EXCEPT !.want_k = 2]
       IN /\ IF lk.attempt >= lk.maxAttempts THEN lk' = lookupExhaust(lk)
             ELSE IF candidates = <<>> \/ target = NoPeer THEN lk' = lookupExhaust(lk)
             ELSE lk' = [lk EXCEPT !.pc = "sent", !.target = target, !.lastBusy = NoPeer,
                                   !.includePayload = includePayload,
                                   !.sent = Append(@, [to |-> target, msg |-> msg]),
                                   !.events = Append(@, Event("probing", lk.hop, target))]
          /\ backoffMap' = [backoffMap EXCEPT ![n] =
                               IF lk.attempt >= lk.maxAttempts THEN @
                               ELSE BackoffAfterPenalty(@, {c \in Range(candidates) : StoreHas(st, c)},
                                                        now)]
    /\ UNCHANGED <<store, cachedSelfCoord>>
    /\ UNCHANGED LookupIdle

\* the tail of an iteration that got a NearAnchor: hints, hop++
lookupAfterAnchor(l, st, best) ==
    [lk |-> [l EXCEPT !.pc = "loop", !.bestAnchors = best, !.hop = @ + 1, !.attempt = @ + 1],
     store |-> UpsertHints(st, l.anchor.cohort_hint)]

\* busy that goes round without using up an attempt
lookupBusyUncounted(l) == [l EXCEPT !.pc = "loop"]

\* busy: `continue`, the for loop's attempt++
lookupBusy(l) == [l EXCEPT !.pc = "loop", !.attempt = @ + 1, !.lastBusy = l.target]

\* the send rejected and the error left the generator
lookupRethrow(l, target) == [l EXCEPT !.pc = "thrown"]

\* the outer catch: bestAnchors loses the target, hop++
lookupCatch(l, target) ==
    [l EXCEPT !.pc = "loop", !.bestAnchors = FilterOut(@, {target}),
              !.hop = @ + 1, !.attempt = @ + 1]

\* what a probed peer can answer
AnchorReply(anchors, hints) ==
    [kind |-> "NearAnchor", anchors |-> anchors, cohort_hint |-> hints,
     estimated_cluster_size |-> DefaultK, confidence |-> 500]
LookupReplies(n) ==
    {BusyResponse(InflightRetryMs), CertResponse("certA"),
     AnchorReply(<<>>, <<>>), AnchorReply(<<"p2">>, <<>>), AnchorReply(<<n>>, <<"??">>),
     AnchorReply(<<"p3", "p2">>, <<"??", "p3">>)}

\* sendMaybeAct resolved with reply r
LookupReply(r) ==
    /\ lk.pc = "sent"
    /\ LET n == lk.node
           l == [lk EXCEPT !.seen = @ \cup {[on |-> "probe", kind |-> r.kind]}]
           resend == l.activity # NoActivity /\ ~l.includePayload /\ Len(r.anchors) > 0
           seenAnchor == [l EXCEPT !.anchor = r,
                                   !.events = Append(@, Event("near_anchor", l.hop, l.target))]
           actMsg == [Msg("kA", 1, l.activity, <<n, l.target>>, "lookup", now)
                        EXCEPT !.want_k = 2]
           after == lookupAfterAnchor(seenAnchor, store[n], r.anchors)
       IN CASE isBusy(r) ->
                 /\ lk' = lookupBusy(l)
                 /\ backoffMap' = [backoffMap EXCEPT ![n] = recordBackoff(@, l.target, now)]
                 /\ UNCHANGED store
            [] r.kind = "Cert" ->
                 /\ lk' = lookupComplete(l, l.hop, l.target)
                 /\ UNCHANGED <<store, backoffMap>>
            [] r.kind = "NearAnchor" /\ resend ->
                 /\ lk' = [seenAnchor EXCEPT
                             !.pc = "actSent", !.actTarget = r.anchors[1],
                             !.sent = Append(@, [to |-> r.anchors[1], msg |-> actMsg]),
                             !.events = Append(@, Event("activity_sent", l.hop + 1, r.anchors[1]))]
                 /\ UNCHANGED <<store, backoffMap>>
            [] OTHER ->
                 /\ lk' = after.lk
                 /\ store' = [store EXCEPT ![n] = after.store]
                 /\ UNCHANGED backoffMap
    /\ UNCHANGED cachedSelfCoord
    /\ UNCHANGED LookupIdle

\* sendMaybeAct rejected (dial failure, timeout, undecodable reply)
LookupError ==
    /\ lk.pc = "sent"
    /\ lk' = lookupCatch([lk EXCEPT !.seen = @ \cup {[on |-> "probe", kind |-> "Error"]}], lk.target)
    /\ backoffMap' = [backoffMap EXCEPT ![lk.node] = recordBackoff(@, lk.target, now)]
    /\ UNCHANGED <<store, cachedSelfCoord>>
    /\ UNCHANGED LookupIdle

\* the activity resend to the first anchor resolved with reply r
LookupActReply(r) ==
    /\ lk.pc = "actSent"
    /\ LET n == lk.node
           l == [lk EXCEPT !.seen = @ \cup {[on |-> "resend", kind |-> r.kind]}]
           best == IF r.kind = "NearAnchor" THEN r.anchors ELSE l.bestAnchors
           after == lookupAfterAnchor(l, store[n], best)
       IN IF r.kind = "Cert"
          THEN /\ lk' = lookupComplete(l, l.hop + 1, l.actTarget)
               /\ UNCHANGED <<store, backoffMap>>
          ELSE /\ lk' = after.lk
               /\ store' = [store EXCEPT ![n] = after.store]
               /\ backoffMap' = [backoffMap EXCEPT ![n] =
                                    IF isBusy(r) THEN recordBackoff(@, l.actTarget, now) ELSE @]
    /\ UNCHANGED cachedSelfCoord
    /\ UNCHANGED LookupIdle

\* the activity resend rejected: the inner catch
LookupActError ==
    /\ lk.pc = "actSent"
    /\ LET n == lk.node
           l == [lk EXCEPT !.seen = @ \cup {[on |-> "resend", kind |-> "Error"]}]
           after == lookupAfterAnchor(l, store[n], l.bestAnchors)
       IN /\ lk' = after.lk
          /\ store' = [store EXCEPT ![n] = after.store]
          /\ backoffMap' = [backoffMap EXCEPT ![n] = recordBackoff(@, l.actTarget, now)]
    /\ UNCHANGED cachedSelfCoord
    /\ UNCHANGED LookupIdle

\* ---- one lookup at a node near the key (p1) or far from it (p4)
LookupNodes == {"p1", "p4"}
LookupConfigs == {Config("edge"), ConfigK(3, "edge")}

InitLookup ==
    /\ InitCommon
    /\ sim = NoSim
    /\ frameCap = MaxFrames
    /\ clientCap = MaxClientMsgs
    /\ cfg \in LookupConfigs
    /\ buckets = [n \in Nodes |-> FullBuckets("edge")]

NextLookup ==
    \/ \E n \in LookupNodes : \E ttl \in 1..MaxLookupTtl : \E a \in {NoActivity, "act"} :
         \E maxAttempts \in {ttl + 2, 1} : LookupStart(n, ttl, maxAttempts, a)
    \/ LookupStep
    \/ \E r \in LookupReplies(lk.node) : LookupReply(r)
    \/ LookupError
    \/ \E r \in LookupReplies(lk.node) : LookupActReply(r)
    \/ LookupActError

SpecLookup == InitLookup /\ [][NextLookup]_vars

\* ------------------------------------------------- routing table persistence
\* exportEntries: one JSON-safe record per entry, in list() order
exportEntries(st) ==
    LET ord == SortIds(st, DOMAIN st)
    IN [i \in 1..Len(ord) |->
          [id |-> ord[i], coord |-> coordToBase64url(st[ord[i]].coord),
           relevance |-> st[ord[i]].relevance, state |-> st[ord[i]].state,
           accessCount |-> st[ord[i]].accessCount, successCount |-> st[ord[i]].successCount,
           failureCount |-> st[ord[i]].failureCount, avgLatencyMs |-> st[ord[i]].avgLatencyMs,
           metadata |-> st[ord[i]].metadata]]

\* the entry a record is restored to
RestoredEntry(e) ==
    [coord |-> base64urlToCoord(e.coord), coordLen |-> DecodedLen(e.coord),
     state |-> "disconnected", relevance |-> e.relevance,
     accessCount |-> e.accessCount, successCount |-> e.successCount,
     failureCount |-> e.failureCount, avgLatencyMs |-> e.avgLatencyMs, metadata |-> e.metadata]

RECURSIVE importEntries(_, _)
\* importEntries: re-insert every record, state forced to disconnected
importEntries(st, entries) ==
    IF entries = <<>> THEN st
    ELSE importEntries([x \in DOMAIN st \cup {Head(entries).id} |->
                           IF x = Head(entries).id THEN RestoredEntry(Head(entries)) ELSE st[x]],
                       Tail(entries))

exportTable(st, selfId, t) ==
    [v |-> 1, peerId |-> selfId, timestamp |-> t, entries |-> exportEntries(st)]

\* importTable: importEntries, then enforceCapacity
importTable(st, table, c, selfId, selfCached) ==
    LET loaded == importEntries(st, table.entries)
    IN [preEvict |-> loaded, store |-> enforceCapacity(loaded, c, selfId, selfCached),
        count |-> Len(table.entries)]

\* ------------------------- the routing table of one node under peer events
PeerEvent(id) == [kind |-> "Event", peer |-> id]

\* the ids of a list that the store does not hold yet
Discovered(st, ids) == SelectSeq(ids, LAMBDA x : ~StoreHas(st, x))

\* seedFromPeerStore: the peers libp2p knows, then self
SeedFromPeerStore(n, peers) ==
    LET merged == UpsertHints(store[n], peers \o <<n>>)
        found == Discovered(store[n], peers \o <<n>>)
        emit == emitDiscovered(buckets[n].discovery, announcedIds[n], found, cfg.profile, now)
    IN /\ rpcLast.seq < MaxRpc
       /\ store' = [store EXCEPT ![n] = enforceCapacity(merged, cfg, n, cachedSelfCoord[n])]
       /\ buckets' = [buckets EXCEPT ![n].discovery = emit.bucket]
       /\ announcedIds' = [announcedIds EXCEPT ![n] = emit.announced]
       /\ rpcLast' = RpcRecord("seed", n, FALSE, OkReply, merged)
       /\ UNCHANGED <<now, diag, cachedSelfCoord>>
       /\ UNCHANGED RpcIdle

\* the peer:connect listener of start()
PeerConnect(n, id) ==
    LET coord == IF StoreHas(store[n], id) THEN store[n][id].coord ELSE hashPeerId(id)
        st1 == StoreUpsert(store[n], id, coord)
        st2 == [st1 EXCEPT ![id].state = "connected"]
    IN /\ rpcLast.seq < MaxRpc
       /\ store' = [store EXCEPT ![n] = applyTouch(st2, id, coord)]
       /\ cachedSelfCoord' = [cachedSelfCoord EXCEPT ![n] = TRUE]
       /\ conn' = [conn EXCEPT ![n] = @ \cup {id}]
       /\ rpcLast' = [RpcRecord("connect", n, FALSE, PeerEvent(id), store[n])
                         EXCEPT !.left = @ \ {id}]
       /\ UNCHANGED <<now, buckets, diag, announcedIds>>
       /\ UNCHANGED <<advances, frameCap, clientCap, cfg, activityHandler, dedupCache,
                      backoffMap, inflightAct, frames, actCalls, fwdLog, cachedBy, last, lk, svc, sim>>

\* the peer:disconnect listener of start()
PeerDisconnect(n, id) ==
    LET coord == IF StoreHas(store[n], id) THEN store[n][id].coord ELSE hashPeerId(id)
        st1 == IF StoreHas(store[n], id) THEN [store[n] EXCEPT ![id].state = "disconnected"]
               ELSE store[n]
    IN /\ rpcLast.seq < MaxRpc
       /\ store' = [store EXCEPT ![n] = applyFailure(st1, id, coord)]
       /\ cachedSelfCoord' = [cachedSelfCoord EXCEPT ![n] = TRUE]
       /\ conn' = [conn EXCEPT ![n] = @ \ {id}]
       /\ rpcLast' = RpcRecord("disconnect", n, FALSE, PeerEvent(id), store[n])
       /\ UNCHANGED <<now, buckets, diag, announcedIds>>
       /\ UNCHANGED <<advances, frameCap, clientCap, cfg, activityHandler, dedupCache,
                      backoffMap, inflightAct, frames, actCalls, fwdLog, cachedBy, last, lk, svc, sim>>

\* one ping of probeNeighborsLatency settling, sent while id was a neighbor
PingSettled(n, id, ok, rttMs) ==
    LET coord == IF StoreHas(store[n], id) THEN store[n][id].coord ELSE hashPeerId(id)
    IN /\ rpcLast.seq < MaxRpc
       /\ store' = [store EXCEPT ![n] = IF ok THEN applySuccess(store[n], id, coord, rttMs)
                                        ELSE applyFailure(store[n], id, coord)]
       /\ cachedSelfCoord' = [cachedSelfCoord EXCEPT ![n] = TRUE]
       /\ rpcLast' = RpcRecord("pingSettled", n, FALSE, PeerEvent(id), store[n])
       /\ UNCHANGED <<now, buckets, diag, announcedIds>>
       /\ UNCHANGED RpcIdle

\* importTable of a table some node exported
ImportTable(n, table) ==
    LET r == importTable(store[n], table, cfg, n, cachedSelfCoord[n])
    IN /\ rpcLast.seq < MaxRpc
       /\ store' = [store EXCEPT ![n] = r.store]
       /\ rpcLast' = RpcRecord("import", n, FALSE, [kind |-> "Count", count |-> r.count],
                               r.preEvict)
       /\ UNCHANGED <<now, buckets, diag, announcedIds, cachedSelfCoord>>
       /\ UNCHANGED RpcIdle

\* persistence across a restart: exportTable, a new service, importTable
Restore(n) ==
    LET r == importTable(EmptyStore, exportTable(store[n], n, now), cfg, n, FALSE)
    IN /\ rpcLast.seq < MaxRpc
       /\ store' = [store EXCEPT ![n] = r.store]
       /\ cachedSelfCoord' = [cachedSelfCoord EXCEPT ![n] = FALSE]
       /\ conn' = [conn EXCEPT ![n] = {}]
       /\ rpcLast' = RpcRecord("restore", n, FALSE, [kind |-> "Count", count |-> r.count],
                               r.preEvict)
       /\ UNCHANGED <<now, buckets, diag, announcedIds>>
       /\ UNCHANGED <<advances, frameCap, clientCap, cfg, activityHandler, dedupCache,
                      backoffMap, inflightAct, frames, actCalls, fwdLog, cachedBy, last, lk, svc, sim>>

StoreNode == "p2"
StoreCapacities == {4, 6}

\* a table exported by a node with a larger capacity
BigTable ==
    exportTable([x \in Peers |->
                    [NewEntry(hashPeerId(x)) EXCEPT !.relevance = 100 * IdRank[x],
                                                    !.state = "connected",
                                                    !.successCount = IdRank[x],
                                                    !.avgLatencyMs = 10 * IdRank[x],
                                                    !.metadata = "validator"]],
                "p4", now)
SmallTable == exportTable(SeededStore({"p4", "q2"}), "p4", now)

InitStore ==
    /\ InitCommon
    /\ sim = NoSim
    /\ frameCap = MaxFrames
    /\ clientCap = MaxClientMsgs
    /\ \E c \in StoreCapacities : cfg = [ConfigK(3, "edge") EXCEPT !.capacity = c]
    /\ buckets = [n \in Nodes |-> FullBuckets("edge")]

PeerStores == {<<"p1", "p3">>, <<"q1", "q2", "q3", "q4", "p1", "p3", "p4">>}

NextStore ==
    \/ \E peers \in PeerStores : SeedFromPeerStore(StoreNode, peers)
    \/ \E id \in {"q1", "p4"} : PeerConnect(StoreNode, id)
    \/ \E id \in {"p1", "q1"} : PeerDisconnect(StoreNode, id)
    \/ \E id \in {"p1", "p3"} : \E ok \in BOOLEAN : PingSettled(StoreNode, id, ok, 20)
    \/ \E table \in {BigTable, SmallTable} : ImportTable(StoreNode, table)
    \/ Restore(StoreNode)
    \/ \E snap \in Announces : HandleAnnounce(StoreNode, snap)
    \/ \E notice \in Leaves : \E replied \in {<<>>, <<"p4">>} :
          HandleLeave(StoreNode, notice, replied)

SpecStore == InitStore /\ [][NextStore]_vars

\* ------------------------------------- assembleCohort asked twice, wants raised
\* two calls on the same store, coordinate and exclusion set
AssembleCohort(n, coord, w1, w2, ex) ==
    /\ rpcLast.seq < MaxRpc
    /\ rpcLast' = RpcRecord("cohort", n, FALSE,
                            [kind |-> "Cohort", coord |-> coord, ex |-> ex, w1 |-> w1, w2 |-> w2,
                             first |-> assembleCohort(store[n], coord, w1, ex),
                             second |-> assembleCohort(store[n], coord, w2, ex)],
                            store[n])
    /\ UNCHANGED <<now, store, buckets, diag, announcedIds, cachedSelfCoord>>
    /\ UNCHANGED RpcIdle

CohortCoords == {hashPeerId("p2"), hashKey("kA"), 0}
CohortExcludes == {{}, {"p2"}, {"p3", "p4"}, {"p1", "q1", "p3"}}
MaxWants == 4

NextCohort ==
    \/ \E id \in {"p4", "q1", "q2", "q4"} : PeerConnect(StoreNode, id)
    \/ \E coord \in CohortCoords : \E ex \in CohortExcludes :
          \E w1 \in 1..MaxWants : \E w2 \in (w1 + 1)..MaxWants :
             AssembleCohort(StoreNode, coord, w1, w2, ex)

SpecCohort == InitStore /\ [][NextCohort]_vars

\* ------------------------------------------- start, stop, stabilization loop
MaxStarts == 2
MaxTicks == 3
LifeNode == "p2"
\* what libp2p's peerStore lists at LifeNode
LifePeers == <<"p1", "p3", "q2">>
hasAddresses(id) == id \in Range(LifePeers)

LifeIdle == <<now, advances, frameCap, clientCap, cfg, conn, activityHandler, dedupCache,
              backoffMap, inflightAct, frames, actCalls, fwdLog, cachedBy, last, rpcLast, lk,
              sim>>

\* tick() called: it returns at once unless stabilizing, else it runs into
\* seedFromPeerStore and is suspended there
tickInvoked(s) ==
    IF s.stabilizing
    THEN [s EXCEPT !.ticks = Append(@, [pc |-> "seed", near |-> <<>>]), !.invoked = @ + 1]
    ELSE s

\* startStabilizationLoop
startStabilizationLoop(s) ==
    IF s.stabilizing THEN s ELSE tickInvoked([s EXCEPT !.stabilizing = TRUE])

\* start(): seedFromPeerStore, the handlers, startStabilizationLoop
Start(n) ==
    LET merged == UpsertHints(store[n], LifePeers \o <<n>>)
        emit == emitDiscovered(buckets[n].discovery, announcedIds[n],
                               Discovered(store[n], LifePeers \o <<n>>), cfg.profile, now)
    IN /\ svc.starts < MaxStarts
       /\ svc.invoked < MaxTicks
       /\ store' = [store EXCEPT ![n] = enforceCapacity(merged, cfg, n, cachedSelfCoord[n])]
       /\ buckets' = [buckets EXCEPT ![n].discovery = emit.bucket]
       /\ announcedIds' = [announcedIds EXCEPT ![n] = emit.announced]
       /\ svc' = [startStabilizationLoop(svc) EXCEPT !.starts = @ + 1]
       /\ UNCHANGED <<cachedSelfCoord, diag>>
       /\ UNCHANGED LifeIdle

\* stop(): the flag is cleared; the leave notices go to the neighbors
Stop(n) ==
    /\ svc.stabilizing
    /\ svc' = [svc EXCEPT !.stabilizing = FALSE]
    /\ UNCHANGED <<store, cachedSelfCoord, buckets, diag, announcedIds>>
    /\ UNCHANGED LifeIdle

\* a setTimeout(tick, delay) coming due
TimerFire(n) ==
    /\ svc.timers > 0
    /\ svc.stabilizing => svc.invoked < MaxTicks
    /\ svc' = tickInvoked([svc EXCEPT !.timers = @ - 1])
    /\ UNCHANGED <<store, cachedSelfCoord, buckets, diag, announcedIds>>
    /\ UNCHANGED LifeIdle

\* a tick resumed in seedFromPeerStore: it seeds from the peerStore and the
\* bootstraps, then stabilizeOnce picks the neighbors to probe and pings them
TickSeed(n, i) ==
    LET st1 == enforceCapacity(UpsertHints(store[n], LifePeers \o <<n>>), cfg, n,
                               cachedSelfCoord[n])
        e1 == emitDiscovered(buckets[n].discovery, announcedIds[n],
                             Discovered(store[n], LifePeers \o <<n>>), cfg.profile, now)
        boots == Take(cfg.bootstraps, 8)
        m2 == MergeIds(st1, boots, <<>>)
        cached == cachedSelfCoord[n] \/ boots # <<>>
        st2 == IF boots = <<>> THEN st1 ELSE enforceCapacity(m2.store, cfg, n, cached)
        e2 == IF boots = <<>> THEN e1
              ELSE emitDiscovered(e1.bucket, e1.announced, m2.discovered, cfg.profile, now)
        nearAll == getNeighbors(st2, hashPeerId(n), "both", Max(2, cfg.m))
        near == SelectSeq(nearAll, LAMBDA id : id # n /\ (id \in conn[n] \/ hasAddresses(id)))
    IN /\ i \in DOMAIN svc.ticks
       /\ svc.ticks[i].pc = "seed"
       /\ store' = [store EXCEPT ![n] = st2]
       /\ cachedSelfCoord' = [cachedSelfCoord EXCEPT ![n] = cached]
       /\ buckets' = [buckets EXCEPT ![n].discovery = e2.bucket]
       /\ announcedIds' = [announcedIds EXCEPT ![n] = e2.announced]
       /\ svc' = [svc EXCEPT !.ticks[i] = [pc |-> "probe", near |-> Take(near, 4)],
                             !.cont = @ + 1]
       /\ UNCHANGED diag
       /\ UNCHANGED LifeIdle

\* how one sendPing ends: ok, not ok (busy, empty or undecodable reply), or
\* a rejection (the peer cannot be dialled)
PingOutcomes == {"ok", "notOk", "throws"}
\* the outcomes of the pings of one tick, in the order of the peers
PingRuns ==
    {<<"ok", "ok", "ok", "ok">>, <<"notOk", "notOk", "notOk", "notOk">>,
     <<"throws", "ok", "notOk", "ok">>}

RECURSIVE ProbeResultsAbort(_, _, _)
ProbeResultsAbort(st, ids, outs) ==
    IF ids = <<>> THEN st
    ELSE LET id == Head(ids)
             coord == IF StoreHas(st, id) THEN st[id].coord ELSE hashPeerId(id)
         IN IF Head(outs) = "throws" THEN st
            ELSE ProbeResultsAbort(IF Head(outs) = "ok" THEN applySuccess(st, id, coord, 20)
                                   ELSE applyFailure(st, id, coord),
                                   Tail(ids), Tail(outs))

RECURSIVE ProbeResults(_, _, _)
\* probeNeighborsLatency: applySuccess on an ok ping, applyFailure on a ping
\* that is not ok and, in the catch block, on one that rejected
ProbeResults(st, ids, outs) ==
    IF ids = <<>> THEN st
    ELSE LET id == Head(ids)
             coord == IF StoreHas(st, id) THEN st[id].coord ELSE hashPeerId(id)
         IN ProbeResults(IF Head(outs) = "ok" THEN applySuccess(st, id, coord, 20)
                         ELSE applyFailure(st, id, coord),
                         Tail(ids), Tail(outs))

\* a tick resumed when its pings have settled; the snapshot fetches go out
TickProbe(n, i, outs) ==
    /\ i \in DOMAIN svc.ticks
    /\ svc.ticks[i].pc = "probe"
    /\ store' = [store EXCEPT ![n] = ProbeResults(store[n], svc.ticks[i].near, outs)]
    /\ cachedSelfCoord' = [cachedSelfCoord EXCEPT ![n] = @ \/ svc.ticks[i].near # <<>>]
    /\ svc' = [svc EXCEPT !.ticks[i].pc = "merge", !.cont = @ + 1,
                          !.pings = SubSeq(outs, 1, Len(svc.ticks[i].near))]
    /\ UNCHANGED <<buckets, diag, announcedIds>>
    /\ UNCHANGED LifeIdle

\* a tick resumed when its snapshot fetches have settled: the merge, then the
\* finally block that sets the next timer. A fetch that failed (stream error,
\* undecodable or busy reply) yields a snapshot without successors.
TickMerge(n, i, replied, failed) ==
    LET near == svc.ticks[i].near
        answering == conn[n] \ failed
        merged == MergeFetched(store[n], near, answering, replied, <<>>)
        touched == replied # <<>> /\ \E w \in Range(near) : w \in answering
        emit == emitDiscovered(buckets[n].discovery, announcedIds[n], merged.discovered,
                               cfg.profile, now)
    IN /\ i \in DOMAIN svc.ticks
       /\ svc.ticks[i].pc = "merge"
       /\ store' = [store EXCEPT ![n] =
                       enforceCapacity(merged.store, cfg, n, cachedSelfCoord[n] \/ touched)]
       /\ cachedSelfCoord' = [cachedSelfCoord EXCEPT ![n] = @ \/ touched]
       /\ buckets' = [buckets EXCEPT ![n].discovery = emit.bucket]
       /\ announcedIds' = [announcedIds EXCEPT ![n] = emit.announced]
       /\ diag' = [diag EXCEPT ![n].snapshotsFetched = @ + Len(near)]
       /\ svc' = [svc EXCEPT !.ticks = SubSeq(@, 1, i - 1) \o SubSeq(@, i + 1, Len(@)),
                             !.timers = @ + 1, !.cont = @ + 1,
                             !.fetch = [replied |-> replied, failed |-> failed]]
       /\ UNCHANGED LifeIdle

\* an awaited step of the tick outside the per-peer handlers rejects: the
\* catch block logs it and the finally block sets the next timer
TickCaught(n, i) ==
    /\ i \in DOMAIN svc.ticks
    /\ svc.ticks[i].pc \in {"probe", "merge"}
    /\ svc' = [svc EXCEPT !.ticks = SubSeq(@, 1, i - 1) \o SubSeq(@, i + 1, Len(@)),
                          !.timers = @ + 1, !.cont = @ + 1, !.caught = @ + 1]
    /\ UNCHANGED <<store, cachedSelfCoord, buckets, diag, announcedIds>>
    /\ UNCHANGED LifeIdle

\* the cluster sizes the service is configured with
LifeKs == {3, 7}
\* the peers whose snapshot fetch fails in one tick
FetchFailures == {{}, {"p1"}}

InitLife ==
    /\ InitCommon
    /\ sim = NoSim
    /\ frameCap = MaxFrames
    /\ clientCap = MaxClientMsgs
    /\ \E boots \in {<<>>, <<"q1">>} : \E k \in LifeKs :
          cfg = [ConfigK(k, "edge") EXCEPT !.bootstraps = boots]
    /\ buckets = [n \in Nodes |-> FullBuckets("edge")]

NextLife ==
    \/ Start(LifeNode)
    \/ Stop(LifeNode)
    \/ TimerFire(LifeNode)
    \/ \E i \in 1..MaxTicks : TickSeed(LifeNode, i)
    \/ \E i \in 1..MaxTicks : \E outs \in PingRuns : TickProbe(LifeNode, i, outs)
    \/ \E i \in 1..MaxTicks : \E replied \in {<<>>, <<"p4">>, <<"q3", "q4">>} :
          \E failed \in FetchFailures : TickMerge(LifeNode, i, replied, failed)
    \/ \E i \in 1..MaxTicks : TickCaught(LifeNode, i)

SpecLife == InitLife /\ [][NextLife]_vars

\* ------------------------------ the node's own entry in its routing table
\* leave notices as they arrive on the wire: `from` is whatever the sender
\* wrote, the receiving node's own id included
SelfLeaves ==
    {LeaveNotice(f, now, <<>>) : f \in {StoreNode, "p1"}}

\* a started node: peer events, pings, snapshot merges, leave notices with any
\* `from`, table imports, and the re-seeding of every stabilization tick
NextSelf ==
    \/ \E peers \in PeerStores : SeedFromPeerStore(StoreNode, peers)
    \/ \E id \in {"q1", "p4"} : PeerConnect(StoreNode, id)
    \/ \E id \in {"p1", "q1"} : PeerDisconnect(StoreNode, id)
    \/ \E id \in {"p1", "p3"} : \E ok \in BOOLEAN : PingSettled(StoreNode, id, ok, 20)
    \/ \E table \in {BigTable, SmallTable} : ImportTable(StoreNode, table)
    \/ \E snap \in Announces : HandleAnnounce(StoreNode, snap)
    \/ \E notice \in SelfLeaves : \E replied \in {<<>>, <<"p4">>} :
          HandleLeave(StoreNode, notice, replied)

SpecSelf == InitStore /\ [][NextSelf]_vars

\* ------------------------------------------- pure operations called directly
\* everything but the record of the last call
CallIdle == <<now, advances, frameCap, clientCap, cfg, store, conn, cachedSelfCoord,
              activityHandler, dedupCache, backoffMap, inflightAct, buckets, diag, frames,
              actCalls, fwdLog, cachedBy, announcedIds, last, lk, svc, sim>>

\* ------------------------------ readAllBounded and the handlers reading through it
\* the read-idle timeout armed once the first data chunk has arrived
IdleGapMs == 100
\* a chunk of the inbound stream and the time it arrives after the previous one
Chunk(data, gap) == [data |-> data, gap |-> gap]

RECURSIVE Concat(_)
Concat(chunks) == IF chunks = <<>> THEN <<>> ELSE Head(chunks).data \o Concat(Tail(chunks))

\* a read that never checks the cumulative size
readAllUnbounded(chunks, maxBytes) ==
    [ok |-> TRUE, bytes |-> Concat(chunks), error |-> ""]

RECURSIVE readWalk(_, _, _, _)
\* the chunk loop: the idle timer wins the race against a late chunk, the
\* cumulative size is checked as each chunk is added
readWalk(chunks, maxBytes, acc, i) ==
    IF i > Len(chunks) THEN [ok |-> TRUE, bytes |-> acc, error |-> ""]
    ELSE IF acc # <<>> /\ chunks[i].gap > IdleGapMs
         THEN [ok |-> TRUE, bytes |-> acc, error |-> ""]
    ELSE IF Len(acc) + Len(chunks[i].data) > maxBytes
         THEN [ok |-> FALSE, bytes |-> <<>>, error |-> "payload too large"]
    ELSE readWalk(chunks, maxBytes, acc \o chunks[i].data, i + 1)

readAllBounded(chunks, maxBytes) == readWalk(chunks, maxBytes, <<>>, 1)

\* a handler that reads its stream to the end whatever its size
HandleStreamUnbounded(chunks, maxBytes) ==
    LET r == readAllUnbounded(chunks, maxBytes)
    IN /\ rpcLast.kind = "none"
       /\ rpcLast' = [kind |-> "read", seq |-> 1, left |-> {}, chunks |-> chunks,
                      maxBytes |-> maxBytes, result |-> r,
                      dispatched |-> IF r.ok THEN <<r.bytes>> ELSE <<>>]
       /\ UNCHANGED CallIdle

\* a registered handler on one inbound stream: read bounded, then decode and
\* dispatch what was read; a failed read is logged and nothing is dispatched
HandleStream(chunks, maxBytes) ==
    LET r == readAllBounded(chunks, maxBytes)
    IN /\ rpcLast.kind = "none"
       /\ rpcLast' = [kind |-> "read", seq |-> 1, left |-> {}, chunks |-> chunks,
                      maxBytes |-> maxBytes, result |-> r,
                      dispatched |-> IF r.ok THEN <<r.bytes>> ELSE <<>>]
       /\ UNCHANGED CallIdle

MaxChunks == 3
ChunkData == {<<1>>, <<2, 3>>, <<4, 5, 6>>}
ChunkGaps == {0, IdleGapMs + 50}
Streams ==
    UNION {[1..len -> {Chunk(d, g) : d \in ChunkData, g \in ChunkGaps}] : len \in 0..MaxChunks}
ReadLimits == {3, 5}

NextRead == \E chunks \in Streams : \E maxBytes \in ReadLimits : HandleStream(chunks, maxBytes)

SpecRead == Init /\ [][NextRead]_vars

\* --------------------------------------------------------- validateTimestamp
\* one call, with the default window or a window of the caller's
CheckTimestamp(offset, window) ==
    /\ rpcLast.kind = "none"
    /\ rpcLast' = [kind |-> "timestamp", seq |-> 1, left |-> {}, at |-> now,
                   ts |-> now + offset, offset |-> offset,
                   maxDrift |-> IF window.default THEN MaxDriftMs ELSE window.ms,
                   result |-> IF window.default THEN validateTimestamp(now + offset, now)
                              ELSE validateTimestampWithin(now + offset, window.ms, now)]
    /\ UNCHANGED CallIdle

DriftWindows ==
    {[default |-> TRUE, ms |-> MaxDriftMs], [default |-> FALSE, ms |-> 30000],
     [default |-> FALSE, ms |-> 0]}
TimestampOffsets ==
    {s * m : s \in {-1, 1},
             m \in {0, 1, 10000, 29999, 30000, 30001, 50000, 60000, MaxDriftMs - 1, MaxDriftMs,
                    MaxDriftMs + 1, 2 * MaxDriftMs}}

NextTime ==
    \/ \E offset \in TimestampOffsets : \E window \in DriftWindows : CheckTimestamp(offset, window)
    \/ \E d \in AdvanceSteps : Advance(d)

SpecTime == Init /\ [][NextTime]_vars

\* ------------------------------------------------- the simulation harness
\* synthetic peers peer-0000 .. are named by their index; createPeer spaces
\* their coordinates evenly around the ring
SimN == 18
SimM == 2
SimSampleSize == 5
SimIntervalMs == 500
MaxStabilize == 2
MaxRoutes == 1
SimPeers == 0..SimN - 1
SimOrder == [i \in 1..SimN |-> i - 1]
SimCoord(p) == p * (RING_SIZE \div SimN)

\* the store's neighbor queries on the entries S of one simulated peer
SimRight(S, coord, k) ==
    LET ord == SelectSeq(SimOrder, LAMBDA x : x \in S)
    IN Take(SelectSeq(ord, LAMBDA x : SimCoord(x) >= coord)
            \o SelectSeq(ord, LAMBDA x : SimCoord(x) < coord), k)
SimLeft(S, coord, k) ==
    LET ord == Reverse(SelectSeq(SimOrder, LAMBDA x : x \in S))
    IN Take(SelectSeq(ord, LAMBDA x : SimCoord(x) <= coord)
            \o SelectSeq(ord, LAMBDA x : SimCoord(x) > coord), k)

\* Math.ceil(Math.log2(n) * 2)
CeilTwoLog2(n) == CHOOSE h \in 0..31 : Pow2(h) >= n * n /\ (h = 0 \/ Pow2(h - 1) < n * n)

\* the services' state, which the harness does not touch
SimIdle == <<now, advances, frameCap, clientCap, cfg, store, conn, cachedSelfCoord,
             activityHandler, dedupCache, backoffMap, inflightAct, buckets, diag, frames,
             actCalls, fwdLog, cachedBy, announcedIds, last, rpcLast, lk, svc>>

\* a leave that no other peer is told of
SimLeaveSilent ==
    /\ sim.batch # <<>>
    /\ LET p == Head(sim.batch)
       IN IF p \notin sim.alive
          THEN sim' = [sim EXCEPT !.batch = Tail(@)]
          ELSE sim' = [sim EXCEPT !.batch = Tail(@),
                                  !.alive = @ \ {p},
                                  !.metrics.totalLeaves = @ + 1]
    /\ UNCHANGED SimIdle

\* handleLeave: the peer dies and every live peer forgets it
SimLeave ==
    /\ sim.batch # <<>>
    /\ LET p == Head(sim.batch)
       IN IF p \notin sim.alive
          THEN sim' = [sim EXCEPT !.batch = Tail(@)]
          ELSE sim' = [sim EXCEPT !.batch = Tail(@),
                                  !.alive = @ \ {p},
                                  !.metrics.totalLeaves = @ + 1,
                                  !.stores = [q \in DOMAIN @ |->
                                                 IF q # p /\ q \in sim.alive THEN @[q] \ {p}
                                                 ELSE @[q]]]
    /\ UNCHANGED SimIdle

\* a peer's S and P sets as its store gives them
SimView(stores, p) ==
    Range(SimRight(stores[p], SimCoord(p), SimM)) \cup Range(SimLeft(stores[p], SimCoord(p), SimM))

RECURSIVE StabExchange(_, _, _, _)
\* the exchange of peer p with each of its neighbors in turn
StabExchange(stores, alive, p, nbrs) ==
    IF nbrs = <<>> THEN stores
    ELSE LET nid == Head(nbrs)
             pv == SimView(stores, p) \cap alive
             nv == SimView(stores, nid) \cap alive
         IN StabExchange([stores EXCEPT ![p] = @ \cup nv, ![nid] = @ \cup pv],
                         alive, p, Tail(nbrs))

\* the live neighbors of p, in the order of [...right, ...left]
SimNeighbors(stores, alive, p) ==
    SelectSeq(Unique(SimRight(stores[p], SimCoord(p), SimM)
                     \o SimLeft(stores[p], SimCoord(p), SimM)),
              LAMBDA id : id # p /\ id \in alive)

RECURSIVE StabPeers(_, _, _, _)
\* handleStabilize's loop over the peers: exchange, then prune the dead
StabPeers(stores, alive, ps, found) ==
    IF ps = <<>> THEN [stores |-> stores, found |-> found]
    ELSE IF Head(ps) \notin alive \/ Head(ps) \notin DOMAIN stores
         THEN StabPeers(stores, alive, Tail(ps), found)
    ELSE LET p == Head(ps)
             nbrs == SimNeighbors(stores, alive, p)
             s1 == StabExchange(stores, alive, p, nbrs)
         IN StabPeers([s1 EXCEPT ![p] = {e \in @ : e = p \/ e \in alive}],
                      alive, Tail(ps), found + Len(nbrs))

RECURSIVE SumOver(_, _, _)
SumOver(stores, alive, ps) ==
    IF ps = <<>> THEN 0
    ELSE IF Head(ps) \notin alive \/ Head(ps) \notin DOMAIN stores
         THEN SumOver(stores, alive, Tail(ps))
    ELSE Cardinality((SimView(stores, Head(ps)) \ {Head(ps)}) \cap alive)
         + SumOver(stores, alive, Tail(ps))

\* snapshotCoverage: the mean over the live peers of actual / ideal, as a fraction
snapshotCoverage(stores, alive) ==
    LET a == Cardinality(alive)
        ideal == Min(Min(SimM, a - 1) * 2, a - 1)
    IN IF a <= 1 THEN [num |-> 1, den |-> 1]
       ELSE [num |-> SumOver(stores, alive, SimOrder), den |-> ideal * a]

RECURSIVE DeadRatios(_, _, _)
\* the loop of deadNeighborRatio over the live peers: the sum of the ratios,
\* per mille, and the number of peers counted
DeadRatios(stores, alive, ps) ==
    IF ps = <<>> THEN [total |-> 0, count |-> 0]
    ELSE LET p == Head(ps)
             rest == DeadRatios(stores, alive, Tail(ps))
             all == SimView(stores, p) \ {p}
             dead == Cardinality(all \ alive)
         IN IF p \notin alive \/ p \notin DOMAIN stores \/ all = {} THEN rest
            ELSE [total |-> rest.total + (1000 * dead) \div Cardinality(all),
                  count |-> rest.count + 1]

\* deadNeighborRatio, per mille
deadNeighborRatio(stores, alive) ==
    LET r == DeadRatios(stores, alive, SimOrder)
    IN IF alive = {} \/ r.count = 0 THEN 0 ELSE r.total \div r.count

SimStabilize ==
    /\ sim.metrics.stabilizationCycles < MaxStabilize
    /\ LET r == StabPeers(sim.stores, sim.alive, SimOrder, 0)
       IN sim' = [sim EXCEPT !.stores = r.stores,
                             !.metrics.stabilizationCycles = @ + 1,
                             !.metrics.neighborsFound = @ + r.found,
                             !.metrics.coverageTimeSeries =
                                 Append(@, [time |-> SimIntervalMs
                                                      * (sim.metrics.stabilizationCycles + 1),
                                            coverage |-> snapshotCoverage(r.stores, sim.alive)])]
    /\ UNCHANGED SimIdle

RECURSIVE RouteWalkUnbounded(_, _, _, _, _, _, _)
\* greedy routing that goes on for as long as there are unvisited peers
RouteWalkUnbounded(stores, alive, target, current, visited, hops, maxHops) ==
    LET S == stores[current]
        right == SimRight(S, target, 1)
        left == SimLeft(S, target, 1)
        cands == SelectSeq(SimRight(S, target, SimM) \o SimLeft(S, target, SimM),
                           LAMBDA id : id \notin visited \cup {current} /\ id \in alive)
    IN IF S = {} THEN [success |-> FALSE, hops |-> hops]
       ELSE IF current \in Range(right) \cup Range(left)
            THEN [success |-> TRUE, hops |-> hops]
       ELSE IF cands = <<>> THEN [success |-> FALSE, hops |-> hops]
       ELSE RouteWalkUnbounded(stores, alive, target, Head(cands), visited \cup {current},
                               hops + 1, maxHops)

RECURSIVE RouteWalk(_, _, _, _, _, _, _)
\* the loop of handleRoute: stop when the current peer is the successor or the
\* predecessor of the target in its own store, else go to the first unvisited
\* live candidate
RouteWalk(stores, alive, target, current, visited, hops, maxHops) ==
    IF hops >= maxHops THEN [success |-> FALSE, hops |-> hops]
    ELSE LET S == stores[current]
             right == SimRight(S, target, 1)
             left == SimLeft(S, target, 1)
             cands == SelectSeq(SimRight(S, target, SimM) \o SimLeft(S, target, SimM),
                                LAMBDA id : id \notin visited \cup {current} /\ id \in alive)
         IN IF S = {} THEN [success |-> FALSE, hops |-> hops]
            ELSE IF current \in Range(right) \cup Range(left)
                 THEN [success |-> TRUE, hops |-> hops]
            ELSE IF cands = <<>> THEN [success |-> FALSE, hops |-> hops]
            ELSE RouteWalk(stores, alive, target, Head(cands), visited \cup {current},
                           hops + 1, maxHops)

\* handleRoute and the recordRoute it ends with
SimRoute(from, target) ==
    /\ sim.metrics.routingAttempts < MaxRoutes
    /\ LET n == Cardinality(sim.alive)
           r == IF from \notin sim.alive THEN [success |-> FALSE, hops |-> 0]
                ELSE RouteWalk(sim.stores, sim.alive, target, from, {}, 0, CeilTwoLog2(n) + 4)
       IN sim' = [sim EXCEPT !.route = [ran |-> TRUE, from |-> from, target |-> target,
                                        aliveCount |-> n, success |-> r.success,
                                        hops |-> r.hops],
                             !.metrics.routingAttempts = @ + 1,
                             !.metrics.routingSuccesses = IF r.success THEN @ + 1 ELSE @,
                             !.metrics.routingHops = Append(@, r.hops)]
    /\ UNCHANGED SimIdle

\* what the seeded generator may have dealt each peer in handleConnect: five
\* other peers; a chain in which every peer learns of the one before it, and
\* the five ring successors of each peer
ChainSample(p) ==
    IF p = 0 THEN {1, 2, SimN - 3, SimN - 2, SimN - 1}
    ELSE IF p = 1 THEN {0, 2, SimN - 3, SimN - 2, SimN - 1}
    ELSE IF p < SimN - 3 THEN {p - 1, 0, SimN - 3, SimN - 2, SimN - 1}
    ELSE {0, 1, 2, 3, 4}
RingSample(p) == {(p + d) % SimN : d \in 1..SimSampleSize}
\* peers picked by scheduleBatchLeave
SimBatches == {<<>>, <<SimN - 3, SimN - 2, SimN - 1>>, <<3, 9>>}
SimTargets == {1, SimCoord(7) + 1}

\* initialize() and the connect events done, a batch of leaves scheduled
InitSim ==
    /\ InitCommon
    /\ frameCap = MaxFrames
    /\ clientCap = MaxClientMsgs
    /\ cfg = Config("edge")
    /\ buckets = [n \in Nodes |-> FullBuckets("edge")]
    /\ \E chain \in BOOLEAN : \E batch \in SimBatches :
          sim = [alive |-> SimPeers,
                 stores |-> [p \in SimPeers |->
                               {p} \cup (IF chain THEN ChainSample(p) ELSE RingSample(p))],
                 batch |-> batch, route |-> NoRoute,
                 metrics |-> [ZeroMetrics EXCEPT !.totalJoins = SimN,
                                                 !.totalConnections = SimN * SimSampleSize]]

NextSim ==
    \/ SimLeave
    \/ SimStabilize
    \/ \E from \in SimPeers : \E target \in SimTargets : SimRoute(from, target)

SpecSim == InitSim /\ [][NextSim]_vars

\* ------------------------------ the routing table under announces with a sample
\* sample lists a remote peer may send: none, an entry as snapshot() encodes
\* it, the entry snapshot() emits for an id it no longer holds (coord ''),
\* and a coordinate of two digits (one byte)
RemoteSamples ==
    {<<>>,
     <<SampleOf("q1", coordToBase64url(hashPeerId("q1")), 5)>>,
     <<SampleOf("q1", <<>>, 0)>>,
     <<SampleOf("q3", <<17, 32>>, 1), SampleOf("q2", coordToBase64url(hashPeerId("q2")), 0)>>}
SampledAnnounces ==
    {[Snapshot(f, now, succ) EXCEPT !.sample = sm] :
        f \in {"p3", "p4"}, succ \in {<<>>, <<"p4">>}, sm \in RemoteSamples}
\* announces whose sample is what snapshot() of a peer's table yields
HonestAnnounces ==
    {[kind |-> "Snapshot", from |-> f, timestamp |-> now,
      successors |-> snapshot(SeededStore(ids), f, cfg, now).successors,
      predecessors |-> snapshot(SeededStore(ids), f, cfg, now).predecessors,
      sample |-> snapshot(SeededStore(ids), f, cfg, now).sample] :
        f \in {"p4"}, ids \in {{"p4", "q1", "q2"}, {"p4", "p1", "p3", "q4"}}}

NextCoord ==
    \/ \E peers \in PeerStores : SeedFromPeerStore(StoreNode, peers)
    \/ \E id \in {"q1", "p4"} : PeerConnect(StoreNode, id)
    \/ \E id \in {"p1", "q1"} : PeerDisconnect(StoreNode, id)
    \/ \E id \in {"p1", "q1"} : \E ok \in BOOLEAN : PingSettled(StoreNode, id, ok, 20)
    \/ HandleNeighbors(StoreNode)
    \/ \E snap \in SampledAnnounces \cup HonestAnnounces : HandleAnnounce(StoreNode, snap)
    \/ \E notice \in {LeaveNotice(f, now, <<>>) : f \in {"p1", "q1"}} :
          HandleLeave(StoreNode, notice, <<>>)

SpecCoord == InitStore /\ [][NextCoord]_vars

\* ------------------------------------------- messages entering with a small TTL
\* clients hand node p4, two hops from the key's cluster, messages with a TTL
\* of 0 to 3
TtlNode == "p4"
TtlMsgs == {Msg("kA", t, "act", <<>>, c, now) : t \in 0..MaxFrames, c \in {"c1", ""}}

NextTtl ==
    \/ \E msg \in TtlMsgs : Inject(TtlNode, msg)
    \/ \E i \in 1..Len(frames) : Deliver(i)
    \/ \E i \in 1..Len(frames) : Route(i)
    \/ \E i \in 1..Len(frames) : \E cert \in Certs : ActivityReturn(i, cert)
    \/ \E i \in 1..Len(frames) : ActivityThrow(i)
    \/ \E i \in 1..Len(frames) : Fallback(i)
    \/ \E i \in 1..Len(frames) : FwdReply(i)
    \/ \E i \in 1..Len(frames) : FwdError(i)

SpecTtl == Init /\ [][NextTtl]_vars

\* ------------------------------------------------ a DedupCache of three entries
\* new DedupCache(50, 3) under set, get and the passing of time
CacheTtlMs == 50
CacheMaxSize == 3
MaxCacheOps == 5
CacheNode == "p1"
CacheKeys == {"c1", "c2", "c3", "c4"}
CacheResults == {CertResponse("x"), CertResponse("y")}
CacheSteps == {CacheTtlMs, CacheTtlMs + 1}

CacheRecord(kind, key, result) ==
    [kind |-> kind, seq |-> rpcLast.seq + 1, left |-> {}, key |-> key, at |-> now,
     before |-> dedupCache[CacheNode], result |-> result]

CacheSet(key, result) ==
    /\ rpcLast.seq < MaxCacheOps
    /\ dedupCache' = [dedupCache EXCEPT ![CacheNode] =
                         DedupSet(@, key, result, now, CacheTtlMs, CacheMaxSize)]
    /\ rpcLast' = CacheRecord("set", key, result)
    /\ UNCHANGED <<now, advances, frameCap, clientCap, cfg, store, conn, cachedSelfCoord,
                   activityHandler, backoffMap, inflightAct, buckets, diag, frames, actCalls,
                   fwdLog, cachedBy, announcedIds, last, lk, svc, sim>>

CacheGet(key) ==
    /\ rpcLast.seq < MaxCacheOps
    /\ dedupCache' = [dedupCache EXCEPT ![CacheNode] = DedupAfterGet(@, key, now)]
    /\ rpcLast' = CacheRecord("get", key, DedupGet(dedupCache[CacheNode], key, now))
    /\ UNCHANGED <<now, advances, frameCap, clientCap, cfg, store, conn, cachedSelfCoord,
                   activityHandler, backoffMap, inflightAct, buckets, diag, frames, actCalls,
                   fwdLog, cachedBy, announcedIds, last, lk, svc, sim>>

NextDedup ==
    \/ \E key \in CacheKeys : \E result \in CacheResults : CacheSet(key, result)
    \/ \E key \in CacheKeys : CacheGet(key)
    \/ \E d \in CacheSteps : Advance(d)

SpecDedup == Init /\ [][NextDedup]_vars

\* ------------------------------- chooseNextHop asked on the table of one node
\* announces whose sample places q2 at its own coordinate, or q1 at q2's
HopSamples ==
    {<<SampleOf("q2", coordToBase64url(hashPeerId("q2")), 0)>>,
     <<SampleOf("q1", coordToBase64url(hashPeerId("q2")), 0)>>}
HopAnnounces == {[Snapshot("p4", now, <<>>) EXCEPT !.sample = sm] : sm \in HopSamples}
HopTargets == {hashKey("kA"), hashPeerId("p1") + 7}
\* near radii: nobody near, the key's close surroundings, everybody near
HopRadii == {0, 16 * (RING_SIZE \div 256), RING_SIZE - 1}
HopTolerances == {0, 1}
\* the table's other peers as candidates, in list order and reversed
HopCandidates(st, selfId) ==
    {FilterOut(SortIds(st, DOMAIN st), {selfId}),
     Reverse(FilterOut(SortIds(st, DOMAIN st), {selfId}))}

HopRecord(mode, n, target, candidates, nearRadius, tol, result) ==
    [kind |-> mode, seq |-> rpcLast.seq, left |-> rpcLast.left, node |-> n,
     store |-> store[n], conn |-> conn[n], target |-> target, candidates |-> candidates,
     nearRadius |-> nearRadius, confidence |-> estimateSizeAndConfidence(store[n], cfg.m).confidence,
     tol |-> tol, result |-> result]

\* chooseNextHop with a nearRadius, as routeAct calls it
ChooseCost(n, target, candidates, nearRadius) ==
    /\ rpcLast' = HopRecord("hopCost", n, target, candidates, nearRadius, 0,
                      chooseNextHopCost(store[n], target, candidates, conn[n], LinkQOf(store[n]),
                                        PenaltyOf(backoffMap[n], now), nearRadius,
                                        estimateSizeAndConfidence(store[n], cfg.m).confidence))
    /\ UNCHANGED CallIdle

\* chooseNextHop without a nearRadius, with a tolerance or the default
ChooseLegacy(n, target, candidates, tol) ==
    /\ rpcLast' = HopRecord("hopLegacy", n, target, candidates, 0, tol,
                      chooseNextHopLegacy(store[n], target, candidates, conn[n],
                                          LinkQOf(store[n]), tol))
    /\ UNCHANGED CallIdle

NextHop ==
    \/ \E peers \in PeerStores : SeedFromPeerStore(StoreNode, peers)
    \/ \E id \in {"q1", "q2"} : PeerConnect(StoreNode, id)
    \/ \E id \in {"p1", "q2"} : PeerDisconnect(StoreNode, id)
    \/ \E snap \in HopAnnounces : HandleAnnounce(StoreNode, snap)
    \/ \E target \in HopTargets : \E cands \in HopCandidates(store[StoreNode], StoreNode) :
         \E r \in HopRadii : ChooseCost(StoreNode, target, cands, r)
    \/ \E target \in HopTargets : \E cands \in HopCandidates(store[StoreNode], StoreNode) :
         \E tol \in HopTolerances : ChooseLegacy(StoreNode, target, cands, tol)

SpecHop == InitStore /\ [][NextHop]_vars

\* ------------------------------------------------ the backoff map of one node
\* what routeAct and iterativeLookup do to the map after a send (busy or
\* error: recordBackoff; success: clearBackoff) and what the selector's
\* backoffPenalty callback reads, with time passing in between
BackoffNode == "p2"
BackoffPeers == {"p1", "p3"}
MaxBackoffOps == 8
\* up to and just past the expiry of a factor-1 and of a factor-32 backoff
BackoffSteps ==
    {BackoffBaseMs, BackoffBaseMs + 1, BackoffBaseMs * BackoffMaxFactor,
     BackoffBaseMs * BackoffMaxFactor + 1}

BackoffRecordOf(kind, id, result) ==
    [kind |-> kind, seq |-> rpcLast.seq + 1, left |-> {}, id |-> id, at |-> now,
     before |-> backoffMap[BackoffNode], result |-> result]

BackoffIdle ==
    <<now, advances, frameCap, clientCap, cfg, store, conn, cachedSelfCoord, activityHandler,
      dedupCache, inflightAct, buckets, diag, frames, actCalls, fwdLog, cachedBy, announcedIds,
      last, lk, svc, sim>>

\* a send to id answered busy or failed
SendFailed(id) ==
    /\ rpcLast.seq < MaxBackoffOps
    /\ backoffMap' = [backoffMap EXCEPT ![BackoffNode] = recordBackoff(@, id, now)]
    /\ rpcLast' = BackoffRecordOf("recordBackoff", id, 0)
    /\ UNCHANGED BackoffIdle

\* a forward to id answered with a result
SendSucceeded(id) ==
    /\ rpcLast.seq < MaxBackoffOps
    /\ backoffMap' = [backoffMap EXCEPT ![BackoffNode] = clearBackoff(@, id)]
    /\ rpcLast' = BackoffRecordOf("clearBackoff", id, 0)
    /\ UNCHANGED BackoffIdle

\* getBackoffPenalty(id): the penalty, an expired entry deleted
ReadPenalty(id) ==
    /\ rpcLast.seq < MaxBackoffOps
    /\ backoffMap' = [backoffMap EXCEPT ![BackoffNode] = BackoffAfterPenalty(@, {id}, now)]
    /\ rpcLast' = BackoffRecordOf("getBackoffPenalty", id,
                                  getBackoffPenalty(backoffMap[BackoffNode], id, now))
    /\ UNCHANGED BackoffIdle

NextBackoff ==
    \/ \E id \in BackoffPeers : SendFailed(id)
    \/ \E id \in BackoffPeers : SendSucceeded(id)
    \/ \E id \in BackoffPeers : ReadPenalty(id)
    \/ \E d \in BackoffSteps : Advance(d)

SpecBackoff == Init /\ [][NextBackoff]_vars

\* ------------------------------------ assembleCohort, one loop pass at a time
WalkIdle == <<now, store, buckets, diag, announcedIds, cachedSelfCoord>>
WalkRunning ==
    /\ rpcLast.kind = "walk"
    /\ CohortMore(rpcLast.reply.succIds, rpcLast.reply.predIds, rpcLast.reply.wants,
                  rpcLast.reply.w)

\* assembleCohort entered: the two neighbor lists are read, the loop variables set
WalkBegin(n, coord, wants, ex) ==
    /\ rpcLast.seq < MaxRpc
    /\ ~WalkRunning
    /\ rpcLast' = RpcRecord("walk", n, FALSE,
                            [kind |-> "Walk", coord |-> coord, ex |-> ex, wants |-> wants,
                             succIds |-> neighborsRight(store[n], coord, wants * 2),
                             predIds |-> neighborsLeft(store[n], coord, wants * 2),
                             w |-> [out |-> <<>>, si |-> 0, pi |-> 0, branch |-> 0],
                             fellBack |-> FALSE],
                            store[n])
    /\ UNCHANGED WalkIdle
    /\ UNCHANGED RpcIdle

\* the loop condition held: one pass through the loop body
WalkIterate ==
    /\ WalkRunning
    /\ \E v \in {CohortStep(rpcLast.reply.succIds, rpcLast.reply.predIds, rpcLast.reply.ex,
                            rpcLast.reply.w)} :
          rpcLast' = [rpcLast EXCEPT !.reply.w = v,
                                     !.reply.fellBack = @ \/ v.branch = 3]
    /\ UNCHANGED WalkIdle
    /\ UNCHANGED RpcIdle

\* the last one holds the four predecessors of coordinate 0 in a store of
\* p1 to p4 and q4
WalkExcludes == {{}, {"p3", "p4"}, {"p1", "q1", "p3"}, {"q4", "p4", "p3", "p2"}}

NextWalk ==
    \/ \E id \in {"p4", "q1", "q2", "q4"} : PeerConnect(StoreNode, id)
    \/ \E coord \in CohortCoords : \E ex \in WalkExcludes : \E wants \in 1..MaxWants :
          WalkBegin(StoreNode, coord, wants, ex)
    \/ WalkIterate

\* the loop is a synchronous while loop: it keeps running while its condition holds
SpecWalk == InitStore /\ [][NextWalk]_vars /\ WF_vars(WalkIterate)

\* ================================================================== claims
HasLast == last.node # NoPeer
NoDuplicates(s) == \A i, j \in 1..Len(s) : i # j => s[i] # s[j]

\* C1: handleMaybeAct invocations of one service instance that carry the same
\* (non-empty) correlation_id never invoke the activity callback more than
\* once in total.
C1_AtMostOneActivityCall ==
    \A n \in Nodes : \A c \in CorrIds \ {""} : actCalls[n][c] <= 1

\* C2 as stated: of two handleMaybeAct calls at one node with the same
\* correlation_id and distinct payloads, the second (begun after the first was
\* answered) returns the result of the first.
C2_SecondEqualsFirst ==
    (HasLast /\ frames[last.frame].pc = "done") =>
        \A i \in last.doneBefore :
            (/\ frames[i].node = last.node
             /\ last.msg.correlation_id # ""
             /\ frames[i].msg.correlation_id = last.msg.correlation_id
             /\ frames[i].msg # last.msg)
            => frames[last.frame].resp = frames[i].resp

\* C2, amended: a call whose correlation_id has a live entry in the dedup
\* cache, and whose breadcrumbs do not hold the node's own id, is answered
\* without routing with the result of the invocation that cached it last,
\* whatever its payload.
C2_CachedResultReturned ==
    (HasLast /\ last.cacheHit /\ ~last.selfInCrumbs) =>
        /\ ~last.routed
        /\ last.cachedFrom \in 1..Len(frames)
        /\ frames[last.cachedFrom].pc = "done"
        /\ last.resp = frames[last.cachedFrom].resp
        /\ frames[last.frame].resp = last.resp

C2_Witness ==
    /\ HasLast /\ last.cacheHit /\ ~last.selfInCrumbs
    /\ last.cachedFrom # last.frame
    /\ frames[last.cachedFrom].msg # last.msg
    /\ frames[last.cachedFrom].msg.correlation_id = last.msg.correlation_id

\* C3: a message arriving at a node whose own id is in its breadcrumbs is
\* never forwarded by that node (nor routed at all); it is answered with a
\* NearAnchor.
C3_LoopNeverForwarded ==
    /\ \A e \in fwdLog : e.by \notin Range(e.recv.breadcrumbs)
    /\ \A i \in 1..Len(frames) :
         frames[i].node \in Range(frames[i].msg.breadcrumbs) =>
            /\ frames[i].pc \in {"arrive", "done"}
            /\ frames[i].pc = "done" => frames[i].resp.kind = "NearAnchor"
    /\ (HasLast /\ last.selfInCrumbs) =>
            /\ ~last.routed
            /\ last.resp = nearAnchorOnly(store[last.node], conn[last.node], cfg, last.msg)
            /\ last.rejAfter = last.rejBefore

C3_Witness ==
    \E i \in 1..Len(frames) :
        /\ frames[i].node = "p4"
        /\ frames[i].node \in Range(frames[i].msg.breadcrumbs)
        /\ frames[i].pc = "done"
        /\ frames[i].resp.kind = "NearAnchor"

\* C4: a forwarded message equals the received one except that ttl is the
\* received ttl minus 1 and the forwarder's id is appended to the breadcrumbs;
\* TTL falls by exactly 1 at every hop of a chain.
C4_ForwardDecrementsTtl ==
    /\ \A e \in fwdLog :
         e.sent = [e.recv EXCEPT !.ttl = e.recv.ttl - 1,
                                 !.breadcrumbs = Append(e.recv.breadcrumbs, e.by)]
    /\ \A i \in 1..Len(frames) :
         frames[i].parent # 0 =>
            /\ frames[i].msg.ttl = frames[frames[i].parent].msg.ttl - 1
            /\ frames[i].msg.breadcrumbs =
                  Append(frames[frames[i].parent].msg.breadcrumbs, frames[frames[i].parent].node)
            /\ [by |-> frames[frames[i].parent].node, to |-> frames[i].node,
                recv |-> frames[frames[i].parent].msg, sent |-> frames[i].msg] \in fwdLog

\* a chain of two forwards
C4_Witness ==
    \E i \in 1..Len(frames) :
        /\ frames[i].parent # 0
        /\ frames[frames[i].parent].parent # 0
        /\ frames[i].msg.ttl = frames[frames[frames[i].parent].parent].msg.ttl - 2

\* C5: routeAct never forwards to a peer named in the received breadcrumbs nor
\* to the node itself, and the breadcrumbs of a message received through a
\* chain of forwards hold no id twice (the handler's own id not even once).
C5_TargetNotInBreadcrumbs ==
    /\ \A e \in fwdLog : e.to \notin Range(e.recv.breadcrumbs) /\ e.to # e.by
    /\ \A i \in 1..Len(frames) :
         frames[i].parent # 0 =>
            /\ NoDuplicates(frames[i].msg.breadcrumbs)
            /\ frames[i].node \notin Range(frames[i].msg.breadcrumbs)

\* a forward whose received breadcrumbs name a peer the forwarder knows
C5_Witness ==
    \E e \in fwdLog :
        /\ Range(e.recv.breadcrumbs) \cap (DOMAIN store[e.by] \ {e.by}) # {}
        /\ \E i \in 1..Len(frames) : frames[i].parent # 0 /\ frames[i].msg = e.sent

\* the checks of the head as facts about the last message handled
LastPassedLoopAndDedup == HasLast /\ ~last.selfInCrumbs /\ ~last.cacheHit
LastBadTimestamp == Abs(last.at - last.msg.timestamp) > MaxDriftMs
LastBadTtl == last.msg.ttl <= 0
LastBadPayload == last.msg.activity = BigActivity
OnlyCounterRaised(field) ==
    /\ last.rejAfter = [last.rejBefore EXCEPT ![field] = @ + 1]
    /\ diag[last.node].rejected = last.rejAfter

\* C6: a message that passes the loop and dedup checks but has a timestamp
\* outside the 5 min window, or ttl <= 0, or an activity above 128 KiB, is
\* answered with a NearAnchor and raises exactly one rejection counter by 1:
\* timestampBounds, ttlExpired or payloadTooLarge, for the first failing check
\* in that order; the other counters keep their values.
C6_FirstFailingCheckCounted ==
    (LastPassedLoopAndDedup /\ (LastBadTimestamp \/ LastBadTtl \/ LastBadPayload)) =>
        /\ ~last.routed
        /\ last.resp.kind = "NearAnchor"
        /\ frames[last.frame].resp = last.resp
        /\ IF LastBadTimestamp THEN OnlyCounterRaised("timestampBounds")
           ELSE IF LastBadTtl THEN OnlyCounterRaised("ttlExpired")
           ELSE OnlyCounterRaised("payloadTooLarge")

\* a message failing all three checks was handled
C6_Witness ==
    /\ LastPassedLoopAndDedup
    /\ LastBadTimestamp /\ LastBadTtl /\ LastBadPayload
    /\ diag[last.node].rejected.timestampBounds = 1
    /\ last.rejBefore.ttlExpired = 1

\* C7: with no whole token in the maybeAct bucket, an otherwise valid message
\* is answered busy with retry_after_ms > 0, rejected.rateLimited rises by
\* exactly 1, and the message is neither routed nor handed to the activity
\* callback.
C7_EmptyBucketAnswersBusy ==
    (/\ LastPassedLoopAndDedup
     /\ ~LastBadTimestamp /\ ~LastBadTtl /\ ~LastBadPayload
     /\ last.tokens < 1000) =>
        /\ ~last.routed
        /\ last.resp.kind = "Busy"
        /\ last.resp.retry_after_ms > 0
        /\ OnlyCounterRaised("rateLimited")
        /\ frames[last.frame].pc = "done"
        /\ frames[last.frame].resp = last.resp
        /\ last.inflightBefore = 0 => actCalls[last.node] = last.actBefore

\* an empty-bucket rejection of a message that carries an activity
C7_Witness ==
    /\ LastPassedLoopAndDedup
    /\ ~LastBadTimestamp /\ ~LastBadTtl /\ ~LastBadPayload
    /\ last.tokens < 1000
    /\ HasActivity(last.msg)
    /\ last.resp.kind = "Busy"
    /\ last.at > 0

\* invocations of handleMaybeAct at n whose frames are at one of the places pcs
FramesAt(n, pcs) == {i \in 1..Len(frames) : frames[i].node = n /\ frames[i].pc \in pcs}
InsideRouteAct == {"route", "activity", "forward"}
ClaimedCap == IF cfg.profile = "core" THEN 16 ELSE 4
LastReachedCapCheck ==
    /\ LastPassedLoopAndDedup
    /\ ~LastBadTimestamp /\ ~LastBadTtl /\ ~LastBadPayload
    /\ last.tokens >= 1000
CapAnswersBusy ==
    (LastReachedCapCheck /\ last.inflightBefore >= ClaimedCap) =>
        /\ ~last.routed
        /\ last.resp = BusyResponse(500)
        /\ frames[last.frame].pc = "done"
        /\ frames[last.frame].resp = last.resp

\* C9 as stated: inflightAct equals the number of handleMaybeAct invocations
\* currently inside routeAct and never exceeds the cap (16 core, 4 edge); a
\* request that reaches the cap check while the cap is reached is answered busy
\* with retry_after_ms = 500 and is not routed.
C9_CounterEqualsInsideRouteAct ==
    /\ \A n \in Nodes :
         /\ inflightAct[n] = Cardinality(FramesAt(n, InsideRouteAct))
         /\ inflightAct[n] <= ClaimedCap
    /\ CapAnswersBusy

\* C9, amended: inflightAct equals the number of invocations that are inside
\* routeAct or, after routeAct threw, still awaiting the fallback
\* nearAnchorOnly of the catch clause; it never exceeds the cap; at the cap a
\* request is answered busy 500 unrouted; an answered invocation holds no slot.
C9_CounterEqualsHeldSlots ==
    /\ \A n \in Nodes :
         /\ inflightAct[n] = Cardinality(FramesAt(n, InsideRouteAct \cup {"fallback"}))
         /\ inflightAct[n] <= ClaimedCap
    /\ CapAnswersBusy

\* a request turned away at the cap while one slot is held by a fallback
C9_Witness ==
    /\ LastReachedCapCheck
    /\ last.inflightBefore = ClaimedCap
    /\ last.resp = BusyResponse(500)
    /\ FramesAt(last.node, {"fallback"}) # {}
    /\ \E i \in 1..Len(frames) : frames[i].pc = "done" /\ frames[i].resp.kind = "Cert"

\* C8: each protocol handler consults its token bucket before its work, and
\* when the bucket rejects the caller is answered { busy, retry_after_ms },
\* rejected.rateLimited rises, and no other service state changes.  (ping,
\* neighbors and leave have a bucket of their own; a bucket gating the
\* announce handler would reject at the latest when every bucket is drained.)
C8_RejectedRequestAnsweredBusy ==
    (/\ rpcLast.kind # "none"
     /\ IF rpcLast.kind = "announce" THEN rpcLast.allBucketsEmpty ELSE rpcLast.bucketRejected)
    => /\ rpcLast.reply.kind = "Busy"
       /\ rpcLast.reply.retry_after_ms > 0
       /\ diag[rpcLast.node].rejected =
             [rpcLast.rejBefore EXCEPT !.rateLimited = @ + 1]
       /\ store[rpcLast.node] = rpcLast.storeBefore
       /\ announcedIds[rpcLast.node] = rpcLast.announcedBefore

LookupEnded == lk.pc = "end"
EventTypes(l) == {l.events[i].type : i \in 1..Len(l.events)}
LookupSafe ==
    /\ lk.pc # "thrown"
    /\ lk.attempt <= lk.maxAttempts
    /\ Len(lk.events) <= 3 * lk.maxAttempts + 1
    /\ \A i \in 1..(Len(lk.events) - 1) : lk.events[i].type \notin Terminal
    /\ LookupEnded <=> (lk.events # <<>> /\ lk.events[Len(lk.events)].type \in Terminal)

\* what is left of a started lookup: attempts, and steps within the attempt
LookupMeasure(l) ==
    CASE l.pc = "loop" -> 3 * (l.maxAttempts - l.attempt) + 3
      [] l.pc = "sent" -> 3 * (l.maxAttempts - l.attempt) + 2
      [] l.pc = "actSent" -> 3 * (l.maxAttempts - l.attempt) + 1
      [] OTHER -> 0

CountEvents(l, type) == Cardinality({i \in 1..Len(l.events) : l.events[i].type = type})

\* C11: a lookup started with TTL t and no maxAttempts override performs at
\* most t + 2 attempts, whatever it is answered: at most t + 2 probes are sent,
\* at most one activity resend follows each probe, and so at most 2 (t + 2)
\* messages leave the node.
C11_AtMostTtlPlusTwoAttempts ==
    (lk.pc # "idle" /\ lk.maxAttempts = lk.ttl + 2)
    => /\ lk.attempt <= lk.ttl + 2
       /\ CountEvents(lk, "probing") <= lk.ttl + 2
       /\ CountEvents(lk, "activity_sent") <= CountEvents(lk, "probing")
       /\ Len(lk.sent) = CountEvents(lk, "probing") + CountEvents(lk, "activity_sent")
       /\ CountEvents(lk, "probing") <=
             lk.attempt + (IF lk.pc \in {"sent", "actSent", "end"} THEN 1 ELSE 0)

\* a lookup that used all its t + 2 attempts, each with a probe, one with a resend
C11_Witness ==
    /\ lk.pc = "end"
    /\ lk.maxAttempts = lk.ttl + 2
    /\ lk.attempt = lk.ttl + 2
    /\ CountEvents(lk, "probing") = lk.ttl + 2
    /\ CountEvents(lk, "activity_sent") >= 1
    /\ [on |-> "probe", kind |-> "Busy"] \in lk.seen

\* ---- C12..C15, C17: the routing table of StoreNode (SpecStore)
LastStoreOp == rpcLast.kind # "none"
LastProtected == protectedIdsAround(rpcLast.preEvict, hashPeerId(rpcLast.node), cfg.m)
LastEvicted == DOMAIN rpcLast.preEvict \ DOMAIN store[rpcLast.node]

\* C12: whatever an operation upserted, the m nearest successors and the m
\* nearest predecessors of self among the entries its capacity enforcement
\* found are all still in the store when the operation has returned
C12_ProtectedIdsSurvive ==
    LastStoreOp => LastProtected \subseteq DOMAIN store[rpcLast.node]

\* an eviction took place that passed over a protected id of lower relevance
C12_Witness ==
    /\ LastStoreOp
    /\ \E e \in LastEvicted : \E q \in LastProtected :
          rpcLast.preEvict[q].relevance < rpcLast.preEvict[e].relevance

\* C13: when importTable has returned, the routing table holds at most
\* cfg.capacity entries, on a started node and on one not yet started
C13_ImportWithinCapacity ==
    (LastStoreOp /\ rpcLast.kind \in {"import", "restore"})
        => Cardinality(DOMAIN store[rpcLast.node]) <= cfg.capacity

\* C14: every evicted entry has a relevance no greater than that of every
\* surviving non-protected entry, and an eviction never takes the store below
\* its capacity
C14_EvictsLeastRelevantFirst ==
    (LastStoreOp /\ LastEvicted # {}) =>
        /\ \A e \in LastEvicted : \A q \in DOMAIN store[rpcLast.node] \ LastProtected :
              q \in DOMAIN rpcLast.preEvict
                 => rpcLast.preEvict[e].relevance <= rpcLast.preEvict[q].relevance
        /\ Cardinality(DOMAIN store[rpcLast.node]) >= cfg.capacity

\* an eviction that left a non-protected entry of higher relevance in place
C14_Witness ==
    /\ LastStoreOp
    /\ \E e \in LastEvicted : \E q \in DOMAIN store[rpcLast.node] \ LastProtected :
          rpcLast.preEvict[e].relevance < rpcLast.preEvict[q].relevance
    /\ Cardinality(DOMAIN store[rpcLast.node]) = cfg.capacity

\* C15: a table exported and imported into an empty store has the same ids,
\* coordinates, relevance, counters, latency and metadata, every entry
\* disconnected, and answers successor and predecessor queries in the same order
QueryCoords == {hashPeerId(x) : x \in Peers} \cup {0, RING_SIZE - 1}
SameQueries(a, b) ==
    \A c \in QueryCoords : \A k \in 1..Cardinality(Peers) :
        /\ neighborsRight(a, c, k) = neighborsRight(b, c, k)
        /\ neighborsLeft(a, c, k) = neighborsLeft(b, c, k)
C15_ImportOfExportRestores ==
    (LastStoreOp /\ rpcLast.kind = "restore") =>
        /\ DOMAIN rpcLast.preEvict = DOMAIN rpcLast.storeBefore
        /\ \A id \in DOMAIN rpcLast.storeBefore :
              rpcLast.preEvict[id] = [rpcLast.storeBefore[id] EXCEPT !.state = "disconnected"]
        /\ SameQueries(rpcLast.preEvict, rpcLast.storeBefore)
        /\ rpcLast.reply.count = Cardinality(DOMAIN rpcLast.storeBefore)

\* a table was restored that held a connected entry with metadata, latency
\* and counters, beside one at another coordinate
C15_Witness ==
    /\ LastStoreOp /\ rpcLast.kind = "restore"
    /\ \E id \in DOMAIN rpcLast.storeBefore :
          /\ rpcLast.storeBefore[id].state = "connected"
          /\ rpcLast.storeBefore[id].metadata # ""
          /\ rpcLast.storeBefore[id].avgLatencyMs > 0
          /\ rpcLast.storeBefore[id].accessCount > 0
          /\ rpcLast.storeBefore[id].coord % 4 # 0
    /\ Cardinality(DOMAIN rpcLast.storeBefore) >= 4

\* C17: a peer whose leave notice was handled, and that has not connected or
\* announced itself since, is not in the routing table after any later
\* operation of the node
C17_DepartedPeerStaysAbsent ==
    LastStoreOp => \A id \in rpcLast.left : id \notin DOMAIN store[rpcLast.node]

\* C18: the replacements handed to the leave handler are at most 12 and all
\* parseable peer ids, whatever list the notice carried
C18_ReplacementsSanitized ==
    rpcLast.kind = "leave" =>
        /\ Len(rpcLast.handed) <= 12
        /\ \A i \in 1..Len(rpcLast.handed) : ValidPeerId(rpcLast.handed[i])
        /\ Range(rpcLast.handed) \subseteq Range(rpcLast.sent)

\* a notice with more than 12 replacements, unparseable ones among the first
\* 12 and parseable ones beyond them, reached the handler with some kept
C18_Witness ==
    /\ rpcLast.kind = "leave"
    /\ Len(rpcLast.sent) > 12
    /\ \E i \in 1..12 : ~ValidPeerId(rpcLast.sent[i])
    /\ \E i \in 13..Len(rpcLast.sent) : ValidPeerId(rpcLast.sent[i])
    /\ rpcLast.handed # <<>>

\* ---- C16: assembleCohort (SpecCohort)
IsPrefix(a, b) == Len(a) <= Len(b) /\ \A i \in 1..Len(a) : a[i] = b[i]

\* C16: for one store, coordinate and exclusion set, the cohort for the
\* smaller wants is a prefix of the cohort for the larger wants
C16_CohortPrefix ==
    rpcLast.kind = "cohort" => IsPrefix(rpcLast.reply.first, rpcLast.reply.second)

\* ---- C19, C20: the stabilization loop (SpecLife)
\* C19: at most one stabilization tick is in progress at any time
C19_OneTickAtATime == Len(svc.ticks) <= 1

\* C20: once stop() has cleared the flag, a resumed tick leaves the store as it is
C20_NoStoreWriteAfterStop ==
    [][(~svc.stabilizing /\ svc'.cont # svc.cont) => store' = store]_vars


\* ---- C21: the node's own id in its own routing table (SpecSelf)
\* C21: once start() has seeded the table, the node's own peer id is an entry
\* of its own routing table in every state
C21_SelfInOwnStore == StoreHas(store[StoreNode], StoreNode)


\* ---- C22: readAllBounded (SpecRead)
TotalBytes(chunks) == Len(Concat(chunks))
\* the chunks that arrive before the first idle gap after the first chunk
HeardChunks(chunks) ==
    LET late == {i \in 2..Len(chunks) : chunks[i].gap > IdleGapMs}
    IN IF late = {} THEN chunks
       ELSE SubSeq(chunks, 1, (CHOOSE i \in late : \A j \in late : i <= j) - 1)

C23_TrueWithinDrift ==
    rpcLast.kind = "timestamp" =>
        /\ rpcLast.result = (/\ rpcLast.ts >= rpcLast.at - rpcLast.maxDrift
                             /\ rpcLast.ts <= rpcLast.at + rpcLast.maxDrift)
        /\ (rpcLast.maxDrift = 300000 /\ rpcLast.offset \in {-299999, 299999}) => rpcLast.result
        /\ (rpcLast.maxDrift = 300000 /\ rpcLast.offset \in {-300001, 300001}) => ~rpcLast.result

\* a timestamp one millisecond beyond the default window, in the future, was
\* rejected at a time other than zero
C23_Witness ==
    /\ rpcLast.kind = "timestamp"
    /\ rpcLast.at > 0
    /\ rpcLast.maxDrift = MaxDriftMs
    /\ rpcLast.ts = rpcLast.at + 300001
    /\ ~rpcLast.result


\* ---- C24: the hop bound of the simulator's routes (SpecSim)
\* C24: a route recorded as successful used at most ceil(2 * log2 N) + 4 hops,
\* N being the number of alive peers when the route was requested
C24_SuccessfulRouteWithinHopBound ==
    (sim.route.ran /\ sim.route.success) =>
        \/ sim.route.hops <= 4
        \/ Pow2(sim.route.hops - 5) < sim.route.aliveCount * sim.route.aliveCount

\* a successful route that needed eleven hops among fifteen alive peers
C24_Witness ==
    /\ sim.route.ran
    /\ sim.route.success
    /\ sim.route.aliveCount = 15
    /\ sim.route.hops = 11


\* C26: every entry of every routing table has a coordinate of exactly
\* CoordBytes bytes (32 in the source), entries made from the sample of a
\* received snapshot included
C26_EveryCoordFullLength ==
    \A n \in Nodes : \A id \in DOMAIN store[n] : store[n][id].coordLen = CoordBytes


\* the client message a forwarded message descends from
RECURSIVE RootOf(_)
RootOf(i) == IF frames[i].parent = 0 THEN i ELSE RootOf(frames[i].parent)
\* the messages sent on in the chain that client message r started
ForwardsOf(r) == {i \in 1..Len(frames) : frames[i].parent # 0 /\ RootOf(i) = r}
RECURSIVE SumForwarded(_)
SumForwarded(S) ==
    IF S = {} THEN 0
    ELSE LET n == CHOOSE x \in S : TRUE IN diag[n].maybeActForwarded + SumForwarded(S \ {n})
RECURSIVE TtlBudget(_)
TtlBudget(i) ==
    IF i = 0 THEN 0
    ELSE (IF frames[i].parent = 0 THEN Max(0, frames[i].msg.ttl) ELSE 0) + TtlBudget(i - 1)

\* C27: a message that enters with TTL t is forwarded at most t times in
\* total: its chain of forwards has at most t messages, each holder sends it
\* on at most once, all sends of the network together (failed ones included)
\* stay within the TTLs the clients gave, and a node that receives it with
\* ttl <= 0 answers without forwarding or routing it.
C27_ForwardsBoundedByTtl ==
    /\ \A r \in 1..Len(frames) :
         frames[r].parent = 0 => Cardinality(ForwardsOf(r)) <= Max(0, frames[r].msg.ttl)
    /\ \A i \in 1..Len(frames) :
         Cardinality({j \in 1..Len(frames) : frames[j].parent = i}) <= 1
    /\ SumForwarded(Nodes) <= TtlBudget(Len(frames))
    /\ \A e \in fwdLog : e.recv.ttl > 0
    /\ \A i \in 1..Len(frames) :
         frames[i].msg.ttl <= 0 =>
            /\ frames[i].pc \in {"arrive", "done"}
            /\ \A j \in 1..Len(frames) : frames[j].parent # i

\* a message entered with ttl 1 was forwarded once; the receiver, who got it
\* with ttl 0, is not named in its breadcrumbs and does not hold the key's
\* cluster, answered a NearAnchor and sent nothing
C27_Witness ==
    \E i \in 1..Len(frames) :
        /\ frames[i].parent # 0
        /\ frames[RootOf(i)].msg.ttl = 1
        /\ Cardinality(ForwardsOf(RootOf(i))) = 1
        /\ frames[i].msg.ttl = 0
        /\ frames[i].node \notin Range(frames[i].msg.breadcrumbs)
        /\ frames[i].pc = "done"
        /\ frames[i].resp.kind = "NearAnchor"
        /\ diag[frames[i].node].rejected.ttlExpired > 0


CacheKeysOf(cache) == {cache[i].key : i \in 1..Len(cache)}
ExpiredAt(cache, t) == {cache[i].key : i \in {j \in 1..Len(cache) : cache[j].expires < t}}
\* the entries of cache whose key is in S, in their order
KeptOf(cache, S) == SelectSeq(cache, LAMBDA e : e.key \in S)
LastCacheSet == rpcLast.kind = "set"

\* C28: the cache never holds more than maxSize entries. A set on a cache
\* that is not full removes nothing; a set on a full cache with expired
\* entries removes exactly the expired ones; a set on a full cache without
\* expired entries removes exactly the entry inserted first. The entries kept
\* stay in insertion order, the key set is stored with its new expiry, and a
\* get adds nothing.
C28_BoundedSweepThenOldest ==
    /\ Len(dedupCache[CacheNode]) <= CacheMaxSize
    /\ NoDuplicates([i \in 1..Len(dedupCache[CacheNode]) |-> dedupCache[CacheNode][i].key])
    /\ LastCacheSet =>
         LET before == rpcLast.before
             after == dedupCache[CacheNode]
             removed == IF Len(before) < CacheMaxSize THEN {}
                        ELSE IF ExpiredAt(before, rpcLast.at) # {} THEN ExpiredAt(before, rpcLast.at)
                        ELSE {before[1].key}
             kept == CacheKeysOf(before) \ removed
         IN /\ CacheKeysOf(after) = kept \cup {rpcLast.key}
            /\ KeptOf(after, kept \ {rpcLast.key}) = KeptOf(before, kept \ {rpcLast.key})
            /\ \E i \in 1..Len(after) :
                  after[i] = [key |-> rpcLast.key, result |-> rpcLast.result,
                              expires |-> rpcLast.at + CacheTtlMs]
    /\ rpcLast.kind = "get" =>
         /\ CacheKeysOf(dedupCache[CacheNode]) \subseteq CacheKeysOf(rpcLast.before)
         /\ rpcLast.result # NoResult =>
               \E i \in 1..Len(rpcLast.before) :
                   /\ rpcLast.before[i].key = rpcLast.key
                   /\ rpcLast.before[i].result = rpcLast.result
                   /\ rpcLast.before[i].expires >= rpcLast.at

\* a new key was set on a full cache whose entries were all unexpired, one of
\* them overwritten since it was inserted: only the first-inserted is gone
C28_Witness ==
    /\ LastCacheSet
    /\ Len(rpcLast.before) = CacheMaxSize
    /\ ExpiredAt(rpcLast.before, rpcLast.at) = {}
    /\ rpcLast.key \notin CacheKeysOf(rpcLast.before)
    /\ rpcLast.before[1].expires > rpcLast.before[2].expires
    /\ Len(dedupCache[CacheNode]) = CacheMaxSize
    /\ rpcLast.before[1].key \notin CacheKeysOf(dedupCache[CacheNode])


\* the candidates of the last selector call that the table holds
HopKnown == {c \in Range(rpcLast.candidates) : StoreHas(rpcLast.store, c)}
HopDist(id) == xorDistance(rpcLast.store[id].coord, rpcLast.target)
HopNear == {c \in HopKnown : isNear(HopDist(c), rpcLast.nearRadius)}
HopCost(id) ==
    cost(normalizeDistance(HopDist(id)), id \in rpcLast.conn, LinkQOf(rpcLast.store)[id],
         PenaltyOf(backoffMap[rpcLast.node], now)[id],
         weightsForContext(TRUE, rpcLast.confidence))
\* a precedes b: nearer; at equal distance connected first, then lower cost,
\* then lower id
NearPrecedes(a, b) ==
    \/ lexLess(HopDist(a), HopDist(b))
    \/ /\ HopDist(a) = HopDist(b)
       /\ \/ a \in rpcLast.conn /\ b \notin rpcLast.conn
          \/ /\ (a \in rpcLast.conn) = (b \in rpcLast.conn)
             /\ \/ HopCost(a) < HopCost(b)
                \/ HopCost(a) = HopCost(b) /\ IdLess(a, b)

\* C29: in cost-function mode with some candidate within nearRadius,
\* chooseNextHop returns the near candidate of smallest XOR distance, at equal
\* distance a connected one before a disconnected one, then the one of lower
\* cost, then the one of lower id.
C29_NearStrictWithTieBreaks ==
    (rpcLast.kind = "hopCost" /\ HopNear # {}) =>
        /\ rpcLast.result \in HopNear
        /\ \A b \in HopNear \ {rpcLast.result} : NearPrecedes(rpcLast.result, b)


\* bestByDist of the last selector call: the candidate nearest the target,
\* the lower id of two at the same distance
HopBestByDist ==
    CHOOSE a \in HopKnown :
        \A b \in HopKnown \ {a} : betterByDist(a, HopDist(a), b, HopDist(b))
\* lowest leading-byte index a connected candidate may have: that of
\* bestByDist less the tolerance (no finite index when bestByDist is at
\* distance 0, whose index is +Infinity)
HopLeadBound ==
    IF HopDist(HopBestByDist) = 0 THEN leadingByteIndex(0)
    ELSE leadingByteIndex(HopDist(HopBestByDist)) - rpcLast.tol
HopEligible ==
    {c \in HopKnown : c \in rpcLast.conn /\ leadingByteIndex(HopDist(c)) >= HopLeadBound}

\* C30: in legacy mode chooseNextHop returns the closest of the connected
\* candidates whose leading non-zero byte index is at least that of
\* bestByDist minus the tolerance, and bestByDist when no connected
\* candidate meets that bound.
C30_LegacyConnectedWithinTolerance ==
    (rpcLast.kind = "hopLegacy" /\ HopKnown # {}) =>
        IF HopEligible = {}
        THEN rpcLast.result = HopBestByDist
        ELSE /\ rpcLast.result \in HopEligible
             /\ \A b \in HopEligible : ~lexLess(HopDist(b), HopDist(rpcLast.result))


BackoffFactors == {1, 2, 4, 8, 16, 32}
\* C31: per peer the backoff factor is 1 at the first recorded failure and
\* doubles at each further one up to 32, the backoff lasting factor seconds;
\* getBackoffPenalty answers factor/32 (per mille here, above 0 and at most
\* 1000) while the backoff has not expired and 0 once it has, or when there
\* is none because a successful forward cleared it.
C31_BackoffDoublesToCap ==
    /\ \A id \in DOMAIN backoffMap[BackoffNode] :
          backoffMap[BackoffNode][id].factor \in BackoffFactors
    /\ rpcLast.kind = "recordBackoff" =>
          LET f == IF rpcLast.id \in DOMAIN rpcLast.before
                   THEN Min(2 * rpcLast.before[rpcLast.id].factor, 32) ELSE 1
          IN /\ rpcLast.id \in DOMAIN backoffMap[BackoffNode]
             /\ backoffMap[BackoffNode][rpcLast.id] = [until |-> rpcLast.at + 1000 * f, factor |-> f]
             /\ \A x \in DOMAIN rpcLast.before \ {rpcLast.id} :
                   x \in DOMAIN backoffMap[BackoffNode]
                   /\ backoffMap[BackoffNode][x] = rpcLast.before[x]
    /\ rpcLast.kind = "clearBackoff" =>
          /\ rpcLast.id \notin DOMAIN backoffMap[BackoffNode]
          /\ getBackoffPenalty(backoffMap[BackoffNode], rpcLast.id, now) = 0
    /\ rpcLast.kind = "getBackoffPenalty" =>
          IF rpcLast.id \in DOMAIN rpcLast.before /\ rpcLast.before[rpcLast.id].until >= rpcLast.at
          THEN /\ rpcLast.result = (1000 * rpcLast.before[rpcLast.id].factor) \div 32
               /\ rpcLast.result > 0 /\ rpcLast.result <= 1000
          ELSE rpcLast.result = 0

\* a seventh failure in a row of a peer whose factor had reached 32
C31_Witness ==
    /\ rpcLast.kind = "recordBackoff"
    /\ rpcLast.id \in DOMAIN rpcLast.before
    /\ rpcLast.before[rpcLast.id].factor = 32
    /\ backoffMap[BackoffNode][rpcLast.id].factor = 32


\* ---- C32: failures inside a stabilization tick (SpecLife)
\* the pings a peer has been counted for
PingsCounted(st, id) == IF StoreHas(st, id) THEN st[id].successCount + st[id].failureCount ELSE 0
TouchesCounted(st, id) == IF StoreHas(st, id) THEN st[id].accessCount ELSE 0
\* tick i goes from its pings to its fetches in this step
ProbeStep(i) ==
    /\ i \in DOMAIN svc.ticks
    /\ Len(svc'.ticks) = Len(svc.ticks)
    /\ svc.ticks[i].pc = "probe"
    /\ svc'.ticks[i].pc = "merge"
\* tick i ends in this step after its fetches
MergeStep(i) ==
    /\ i \in DOMAIN svc.ticks
    /\ svc.ticks[i].pc = "merge"
    /\ svc'.ticks = SubSeq(svc.ticks, 1, i - 1) \o SubSeq(svc.ticks, i + 1, Len(svc.ticks))
    /\ svc'.caught = svc.caught
\* C32: whatever the single pings and fetches of a tick do, every peer of the
\* tick is processed (each pinged peer is counted once, as a success or as a
\* failure; each peer is asked for its snapshot and every snapshot that
\* arrived is merged), every tick that ends has set the next timer, and
\* while the service is not stopped a timer coming due starts the next tick
C32_TickIsolatesFailures ==
    [][/\ \A i \in 1..MaxTicks : ProbeStep(i) =>
             \A k \in DOMAIN svc.ticks[i].near :
                LET id == svc.ticks[i].near[k]
                IN /\ PingsCounted(store'[LifeNode], id) = PingsCounted(store[LifeNode], id) + 1
                   /\ (svc'.pings[k] = "ok") =
                         (store'[LifeNode][id].successCount > 
                             (IF StoreHas(store[LifeNode], id)
                              THEN store[LifeNode][id].successCount ELSE 0))
       /\ \A i \in 1..MaxTicks : MergeStep(i) =>
             LET near == svc.ticks[i].near
                 arrived == {k \in DOMAIN near : near[k] \in conn[LifeNode] \ svc'.fetch.failed}
             IN /\ diag'[LifeNode].snapshotsFetched =
                      diag[LifeNode].snapshotsFetched + Len(near)
                /\ \A r \in Range(svc'.fetch.replied) :
                      StoreHas(store'[LifeNode], r) =>
                         TouchesCounted(store'[LifeNode], r) =
                            TouchesCounted(store[LifeNode], r) + Cardinality(arrived)
       /\ Len(svc'.ticks) < Len(svc.ticks) => svc'.timers = svc.timers + 1
       /\ (svc.stabilizing /\ svc'.timers < svc.timers) =>
             Len(svc'.ticks) = Len(svc.ticks) + 1
      ]_vars

\* a tick whose first ping rejected and whose fetch from p1 failed has pinged
\* its second peer, merged the snapshot of the other connected peer and set
\* the next timer
C32_Witness ==
    /\ Len(svc.pings) >= 2
    /\ svc.pings[1] = "throws"
    /\ svc.fetch.failed = {"p1"}
    /\ svc.fetch.replied # <<>>
    /\ svc.ticks = <<>>
    /\ svc.timers > 0
    /\ svc.stabilizing


\* ---- C34: the neighbors of a stabilization tick (SpecLife)
\* tick i goes from seeding to its pings in this step
SeedStep(i) ==
    /\ i \in DOMAIN svc.ticks
    /\ Len(svc'.ticks) = Len(svc.ticks)
    /\ svc.ticks[i].pc = "seed"
    /\ svc'.ticks[i].pc = "probe"
\* up to max(2, m) successors and up to max(2, m) predecessors of self, without
\* self and the peers that are neither connected nor dialable
BothSides(st, n) ==
    LET wants == Max(2, cfg.m)
        succ == neighborsRight(st, hashPeerId(n), wants)
        pred == neighborsLeft(st, hashPeerId(n), wants)
    IN SelectSeq(Unique(succ \o pred),
                 LAMBDA id : id # n /\ (id \in conn[n] \/ hasAddresses(id)))
\* C34: the peers a tick pings and asks for snapshots are the first four of
\* the union of up to max(2, m) successors and up to max(2, m) predecessors of
\* self in the seeded store, filtered to non-self peers that are connected or
\* have known addresses
C34_NeighborsFromBothSides ==
    [][\A i \in 1..MaxTicks : SeedStep(i) =>
          svc'.ticks[i].near = Take(BothSides(store'[LifeNode], LifeNode), 4)]_vars


\* ---- C35: assembleCohort terminates (SpecWalk)
\* C35: whatever the store, the coordinate, wants and the exclusion set, the
\* loop of assembleCohort, once entered, reaches the end of the loop, also
\* when one of the two neighbor lists is used up before the other
C35_WalkTerminates == WalkRunning ~> ~WalkRunning

\* a walk that ended after it had used up the predecessors and gone on with
\* the successors that were left
C35_Witness ==
    /\ rpcLast.kind = "walk"
    /\ ~WalkRunning
    /\ rpcLast.reply.fellBack
    /\ rpcLast.reply.w.out # <<>>


\* ---- C33: who invokes the activity callback (Spec)
\* the frames of the request that client message r started which invoked the callback
InvokersOf(r) == {i \in 1..Len(frames) : RootOf(i) = r /\ frames[i].act # "none"}
\* client messages with an activity that handleMaybeAct let through to
\* routeAct and that have been answered
AnsweredRequests ==
    {r \in 1..Len(frames) : /\ frames[r].parent = 0
                            /\ HasActivity(frames[r].msg)
                            /\ frames[r].pc = "done"
                            /\ frames[r].est.n > 0}
InClusterAt(i) ==
    neighborDistance(store[frames[i].node], frames[i].node, hashKey(frames[i].msg.key),
                     Max(2, frames[i].msg.want_k)) <= 1
DeadKept == UNION {sim.stores[p] \ sim.alive : p \in sim.alive}
\* C36: once a stabilization tick has completed, the store of every live peer
\* holds only ids of live peers, also after the leaves that follow, and the
\* dead-neighbor ratio is at most 20 %
C36_LiveStoresHoldLivePeers ==
    sim.metrics.stabilizationCycles > 0 =>
        /\ DeadKept = {}
        /\ deadNeighborRatio(sim.stores, sim.alive) <= 200

\* a batch of three peers has left and two stabilization ticks have completed
C36_Witness ==
    /\ sim.metrics.stabilizationCycles = 2
    /\ sim.metrics.totalLeaves = 3
    /\ sim.batch = <<>>
    /\ \E p \in sim.alive : sim.stores[p] # SimView(sim.stores, p)


\* ---- C37 to C40: the messages of iterativeLookup (SpecLookup)
\* C40: every message iterativeLookup has sent, probe or activity resend,
\* carries a ttl of at least 1
C40_SentTtlAtLeastOne ==
    \A k \in DOMAIN lk.sent : lk.sent[k].msg.ttl >= 1


\* C39: every message iterativeLookup has sent is addressed to a peer other
\* than the sender and outside the message's own breadcrumbs
C39_AddresseeNotInBreadcrumbs ==
    \A k \in DOMAIN lk.sent :
       /\ lk.sent[k].to # lk.node
       /\ lk.sent[k].to \notin Range(lk.sent[k].msg.breadcrumbs)


\* the attempt that follows a busy answer is sent in this step
AfterBusyStep == lk.pc = "loop" /\ lk'.pc = "sent" /\ lk.lastBusy # NoPeer
\* C37: when the probed peer answered busy, a backoff entry exists for it and
\* the next attempt goes to another candidate whenever there is one
C37_BusyPeerSkipped ==
    [][AfterBusyStep =>
          /\ lk.lastBusy \in DOMAIN backoffMap[lk.node]
          /\ (\E c \in Range(lookupCandidates(store[lk.node], cfg, lk)) : c # lk.lastBusy)
                => lk'.target # lk.lastBusy]_vars


\* ---- C38: the activity resend after a probe (Spec)
\* the frame in which node n answered a probe of correlation id c without
\* activity by a NearAnchor out of routeAct, in-cluster and with a callback
ProbeAnswered(p) ==
    /\ p \in 1..Len(frames)
    /\ frames[p].pc = "done"
    /\ ~HasActivity(frames[p].msg)
    /\ frames[p].msg.correlation_id # ""
    /\ frames[p].resp.kind = "NearAnchor"
    /\ frames[p].est.n > 0
    /\ activityHandler[frames[p].node]
    /\ InClusterAt(p)
\* C38: a message with the activity and the correlation id of an answered
\* probe that reaches the same node afterwards and passes the checks of
\* handleMaybeAct is answered with the callback's result
C38_ResendInvokesCallback ==
    (HasLast /\ frames[last.frame].pc = "done" /\ HasActivity(last.msg)
        /\ ~last.selfInCrumbs /\ last.msg.ttl >= 1 /\ last.tokens >= 1
        /\ validateTimestamp(last.msg.timestamp, last.at)
        /\ \E p \in last.doneBefore :
              /\ ProbeAnswered(p)
              /\ frames[p].node = last.node
              /\ frames[p].msg.correlation_id = last.msg.correlation_id)
    => /\ frames[last.frame].act # "none"
       /\ frames[last.frame].resp.kind # "NearAnchor"

====
